---- MODULE Spec2Model ----
(***************************************************************************)
(* A model of ftl-mcp: the StateManager (src/src/ftl_mcp/state.py) and the *)
(* server tools built on it (src/src/ftl_mcp/server.py).                   *)
(*                                                                         *)
(* Python values are tagged records ([t |-> "none"], [t |-> "dict", ...]). *)
(* A Python dict whose insertion order the code depends on is a sequence   *)
(* of entries [k |-> key, v |-> value] with distinct keys.                 *)
(***************************************************************************)
EXTENDS Integers, Sequences, FiniteSets, TLC

VARIABLES
    sessions,                \* StateManager._sessions: session id -> SessionData
    inventory,               \* StateManager._inventory
    inventory_history,       \* StateManager._inventory_history
    current_mission,         \* StateManager._current_mission
    mission_history,         \* StateManager._mission_history
    last_completed_mission,  \* StateManager._last_completed_mission
    generic_storage,         \* StateManager._generic_storage: key -> value
    inv_storage,             \* server._inventory_storage
    files,                   \* the file system: path -> file
    reqs,                    \* in-flight update_session_data requests
    now,                     \* the clock read by _get_current_time()
    ret,                     \* what the last call returned to its caller
    tasks,                   \* ftl_integration.task_logger.tasks
    secrets_manager,         \* secrets.secrets_manager
    environ,                 \* os.environ
    secrets_file,            \* the file ~/.ftl_mcp_secrets.enc
    twin                     \* a second secrets store: same calls, other values

storeVars == <<sessions, inventory, inventory_history, current_mission,
               mission_history, last_completed_mission, generic_storage>>
vars == <<sessions, inventory, inventory_history, current_mission,
          mission_history, last_completed_mission, generic_storage,
          inv_storage, files, reqs, now, ret,
          tasks, secrets_manager, environ, secrets_file, twin>>
secretVars == <<secrets_manager, environ, secrets_file, twin>>

(***************************************************************************)
(* Bounds of the model.                                                    *)
(***************************************************************************)
MaxCount == 2       \* largest request_count a caller-built SessionData carries
MaxClock == 1       \* the clock ticks at most this often
MaxFuel == 120      \* updates that would raise fuel_level above this are left out
MaxDistance == 5    \* updates that would move distance_traveled beyond +-this are left out
MaxActivities == 6   \* tracked calls are followed up to this many logged activities
MaxAlerts == 2      \* updates that would make the alert list longer are left out

(***************************************************************************)
(* Python values.                                                          *)
(***************************************************************************)
None == [t |-> "none"]
Str(s) == [t |-> "str", s |-> s]
Num(n) == [t |-> "int", n |-> n]
List(items) == [t |-> "list", items |-> items]
Dict(entries) == [t |-> "dict", e |-> entries]
E(k, v) == [k |-> k, v |-> v]

IsDict(x) == x.t = "dict"
IsList(x) == x.t = "list"

\* key in d, d[key], d.keys() and d[key] = value for an insertion-ordered dict
Has(d, k) == \E i \in 1..Len(d) : d[i].k = k
Get(d, k) == d[CHOOSE i \in 1..Len(d) : d[i].k = k].v
Keys(d) == [i \in 1..Len(d) |-> d[i].k]
Put(d, k, v) ==
    IF Has(d, k)
    THEN [i \in 1..Len(d) |-> IF d[i].k = k THEN E(k, v) ELSE d[i]]
    ELSE Append(d, E(k, v))
Range(s) == {s[i] : i \in 1..Len(s)}

\* bool(x) as Python evaluates it in `if x` / `not x`: None, "", [] and {} are
\* false; a pydantic model defines neither __bool__ nor __len__ and is true
Truthy(x) ==
    CASE x.t = "none" -> FALSE
      [] x.t = "str" -> x.s # ""
      [] x.t = "int" -> x.n # 0
      [] x.t = "list" -> Len(x.items) > 0
      [] x.t = "dict" -> Len(x.e) > 0
      [] OTHER -> TRUE

\* a function with one key removed (del d[key])
Without(f, k) == [x \in DOMAIN f \ {k} |-> f[x]]
\* a function with one key set (d[key] = value)
With(f, k, v) == [x \in DOMAIN f \cup {k} |-> IF x = k THEN v ELSE f[x]]
EmptyMap == [x \in {} |-> None]

(***************************************************************************)
(* The pydantic models of state.py.                                        *)
(***************************************************************************)
SessionActivity(timestamp, action, request_id, details) ==
    [timestamp |-> timestamp, action |-> action, request_id |-> request_id,
     details |-> details]

SessionData(id, name, time, client, count, acts, data) ==
    [t |-> "session", session_id |-> id, session_name |-> name,
     start_time |-> time, client_id |-> client, request_count |-> count,
     last_activity |-> time, activities |-> acts, session_data |-> data]

InventoryData(source, hosts, groups) ==
    [t |-> "inventory", source_file |-> source, total_hosts |-> hosts,
     total_groups |-> groups]

MissionData(name, destination, status) ==
    [t |-> "mission", name |-> name, destination |-> destination,
     status |-> status, fuel_level |-> 100, crew_count |-> 5,
     distance_traveled |-> 0, alerts |-> <<>>]

(***************************************************************************)
(* The values callers hand to the StateManager.                            *)
(***************************************************************************)
SessionIds == {"s1", "s2"}
GenericKeys == {"k", "config"}

SessionVals(id) ==
    {SessionData(id, "Test", 0, "client_123", c,
                 <<SessionActivity(0, "session_started", "req_1", None)>>, <<>>)
        : c \in 1..MaxCount}
InventoryVals == {InventoryData("/test.yml", 0, 0)}
MissionVals == {MissionData("Test Mission", "Alpha", "planning")}
HistoryVals == {<<>>, <<"a">>}
CompletedVals == {[t |-> "summary", name |-> "Test Mission", alert_count |-> 0]}
GenericVals == {List(<<>>), List(<<"x">>)}

(***************************************************************************)
(* StateManager (state.py).  A getter is modelled by what it returns: the  *)
(* value, and `shares`, the stored objects that the returned value IS (a   *)
(* Python reference, not a copy).  P names the place of a stored object.   *)
(***************************************************************************)
P(slot, key) == [slot |-> slot, key |-> key]
Returned(val, shares) == [val |-> val, shares |-> shares]

\* return self._sessions.get(session_id)
get_session(id) ==
    IF id \in DOMAIN sessions
    THEN Returned(sessions[id], {P("sessions", id)})
    ELSE Returned(None, {})

\* return self._sessions.copy(): a new dict holding the same SessionData objects
list_sessions ==
    Returned(sessions, {P("sessions", id) : id \in DOMAIN sessions})

\* a delete_session that reports success whether or not the id was stored
delete_session_always_true(id) ==
    [sessions |-> Without(sessions, id), ret |-> TRUE]

\* del self._sessions[session_id]; return True / return False
delete_session(id) ==
    IF id \in DOMAIN sessions
    THEN [sessions |-> Without(sessions, id), ret |-> TRUE]
    ELSE [sessions |-> sessions, ret |-> FALSE]

\* return self._inventory
get_inventory ==
    Returned(inventory, IF inventory = None THEN {} ELSE {P("inventory", "")})

\* return self._inventory_history.copy(): a new list of (immutable) strings
get_inventory_history == Returned(inventory_history, {})

\* a set_current_mission that does not replace an active mission
set_current_mission_keeps_active(data) ==
    IF current_mission = None THEN data ELSE current_mission

\* a set_current_mission written as `if data: self._current_mission = data`
set_current_mission_skips_none(data) ==
    IF data = None THEN current_mission ELSE data

\* self._current_mission = data: the value of the slot after the call
set_current_mission(data) == data

\* return self._current_mission
get_current_mission ==
    Returned(current_mission,
             IF current_mission = None THEN {} ELSE {P("mission", "")})

\* return self._mission_history.copy()
get_mission_history == Returned(mission_history, {})

\* self._last_completed_mission = data: the value of the slot after the call
set_last_completed_mission(data) == data

\* return self._last_completed_mission
get_last_completed_mission ==
    Returned(last_completed_mission,
             IF last_completed_mission = None THEN {} ELSE {P("completed", "")})

\* return self._generic_storage.get(key, default)
\* a get_generic written as self._generic_storage.get(key)
get_generic_ignores_default(key, default) ==
    IF key \in DOMAIN generic_storage
    THEN Returned(generic_storage[key], {P("generic", key)})
    ELSE Returned(None, {})

get_generic(key, default) ==
    IF key \in DOMAIN generic_storage
    THEN Returned(generic_storage[key], {P("generic", key)})
    ELSE Returned(default, {})

\* del self._generic_storage[key]; return True / return False
delete_generic(key) ==
    IF key \in DOMAIN generic_storage
    THEN [generic |-> Without(generic_storage, key), ret |-> TRUE]
    ELSE [generic |-> generic_storage, ret |-> FALSE]

\* a get_stats whose total leaves the generic items out
get_stats_without_generic ==
    [active_sessions |-> Cardinality(DOMAIN sessions),
     inventory_loaded |-> inventory # None,
     active_mission |-> current_mission # None,
     generic_items |-> Cardinality(DOMAIN generic_storage),
     total_memory_items |->
         Cardinality(DOMAIN sessions)
         + (IF Truthy(inventory) THEN 1 ELSE 0)
         + (IF Truthy(current_mission) THEN 1 ELSE 0)]

get_stats ==
    [active_sessions |-> Cardinality(DOMAIN sessions),
     inventory_loaded |-> inventory # None,
     active_mission |-> current_mission # None,
     generic_items |-> Cardinality(DOMAIN generic_storage),
     total_memory_items |->
         Cardinality(DOMAIN sessions)
         + (IF Truthy(inventory) THEN 1 ELSE 0)
         + (IF Truthy(current_mission) THEN 1 ELSE 0)
         + Cardinality(DOMAIN generic_storage)]

\* json.dumps / model_dump_json of the section asked for, else of everything
to_json(section) ==
    CASE section = "sessions" -> [sessions |-> sessions]
      [] section = "inventory" /\ Truthy(inventory) -> [inventory |-> inventory]
      [] section = "mission" /\ Truthy(current_mission) ->
            [current_mission |-> current_mission]
      [] section = "generic" -> [generic_storage |-> generic_storage]
      [] OTHER ->
            [sessions |-> sessions, inventory |-> inventory,
             inventory_history |-> inventory_history,
             current_mission |-> current_mission,
             mission_history |-> mission_history,
             last_completed_mission |-> last_completed_mission,
             generic_storage |-> generic_storage, stats |-> get_stats]

(***************************************************************************)
(* What a call hands back: the operation, its key argument, the value, the *)
(* stored objects the value shares, and the value as it was when returned. *)
(***************************************************************************)
Ret(op, key, r) ==
    [op |-> op, key |-> key, default |-> None, val |-> r.val,
     shares |-> r.shares, snap |-> r.val]
NoRet == Ret("none", "", Returned(None, {}))
Plain(op, key, val) == Ret(op, key, Returned(val, {}))

serverVars == <<inv_storage, files, reqs, now, tasks, secretVars>>

(***************************************************************************)
(* The caller's side of a returned value.  Pydantic models, lists and      *)
(* dicts are mutable: the caller may assign a field or append an item.     *)
(***************************************************************************)
At(p) ==
    CASE p.slot = "sessions" -> sessions[p.key]
      [] p.slot = "inventory" -> inventory
      [] p.slot = "mission" -> current_mission
      [] p.slot = "completed" -> last_completed_mission
      [] p.slot = "generic" -> generic_storage[p.key]

\* the object after the caller's assignment (obj.request_count += 1, ...)
Mutated(o) ==
    CASE o.t = "session" ->
            [o EXCEPT !.request_count = IF @ < MaxCount THEN @ + 1 ELSE @]
      [] o.t = "inventory" -> [o EXCEPT !.source_file = "/other.yml"]
      [] o.t = "mission" -> [o EXCEPT !.status = "active"]
      [] o.t = "summary" -> [o EXCEPT !.alert_count = 1]
      [] o.t = "list" -> IF o.items = <<>> THEN List(<<"x">>) ELSE o
      [] OTHER -> o

(***************************************************************************)
(* StateManager operations as actions.                                     *)
(***************************************************************************)
SetSession(id, data) ==
    /\ sessions' = With(sessions, id, data)
    /\ ret' = NoRet
    /\ UNCHANGED <<inventory, inventory_history, current_mission, mission_history,
                   last_completed_mission, generic_storage, serverVars>>

GetSession(id) ==
    /\ ret' = Ret("get_session", id, get_session(id))
    /\ UNCHANGED <<storeVars, serverVars>>

ListSessions ==
    /\ ret' = Ret("list_sessions", "", list_sessions)
    /\ UNCHANGED <<storeVars, serverVars>>

DeleteSession(id) ==
    /\ sessions' = delete_session(id).sessions
    /\ ret' = Plain("delete_session", id, delete_session(id).ret)
    /\ UNCHANGED <<inventory, inventory_history, current_mission, mission_history,
                   last_completed_mission, generic_storage, serverVars>>

SetInventory(data) ==
    /\ inventory' = data
    /\ ret' = NoRet
    /\ UNCHANGED <<sessions, inventory_history, current_mission, mission_history,
                   last_completed_mission, generic_storage, serverVars>>

GetInventory ==
    /\ ret' = Ret("get_inventory", "", get_inventory)
    /\ UNCHANGED <<storeVars, serverVars>>

SetInventoryHistory(history) ==
    /\ inventory_history' = history
    /\ ret' = NoRet
    /\ UNCHANGED <<sessions, inventory, current_mission, mission_history,
                   last_completed_mission, generic_storage, serverVars>>

GetInventoryHistory ==
    /\ ret' = Ret("get_inventory_history", "", get_inventory_history)
    /\ UNCHANGED <<storeVars, serverVars>>

\* a clear_inventory that forgets the history
ClearInventory_keeps_history ==
    /\ inventory' = None
    /\ ret' = Plain("clear_inventory", "", None)
    /\ UNCHANGED <<sessions, inventory_history, current_mission, mission_history,
                   last_completed_mission, generic_storage, serverVars>>

ClearInventory ==
    /\ inventory' = None
    /\ inventory_history' = <<>>
    /\ ret' = Plain("clear_inventory", "", None)
    /\ UNCHANGED <<sessions, current_mission, mission_history,
                   last_completed_mission, generic_storage, serverVars>>

SetCurrentMission(data) ==
    /\ current_mission' = set_current_mission(data)
    /\ ret' = NoRet
    /\ UNCHANGED <<sessions, inventory, inventory_history, mission_history,
                   last_completed_mission, generic_storage, serverVars>>

GetCurrentMission ==
    /\ ret' = Ret("get_current_mission", "", get_current_mission)
    /\ UNCHANGED <<storeVars, serverVars>>

SetMissionHistory(history) ==
    /\ mission_history' = history
    /\ ret' = NoRet
    /\ UNCHANGED <<sessions, inventory, inventory_history, current_mission,
                   last_completed_mission, generic_storage, serverVars>>

GetMissionHistory ==
    /\ ret' = Ret("get_mission_history", "", get_mission_history)
    /\ UNCHANGED <<storeVars, serverVars>>

SetLastCompletedMission(data) ==
    /\ last_completed_mission' = set_last_completed_mission(data)
    /\ ret' = NoRet
    /\ UNCHANGED <<sessions, inventory, inventory_history, current_mission,
                   mission_history, generic_storage, serverVars>>

GetLastCompletedMission ==
    /\ ret' = Ret("get_last_completed_mission", "", get_last_completed_mission)
    /\ UNCHANGED <<storeVars, serverVars>>

SetGeneric(key, value) ==
    /\ generic_storage' = With(generic_storage, key, value)
    /\ ret' = NoRet
    /\ UNCHANGED <<sessions, inventory, inventory_history, current_mission,
                   mission_history, last_completed_mission, serverVars>>

GetGeneric(key, default) ==
    /\ ret' = [Ret("get_generic", key, get_generic(key, default))
                  EXCEPT !.default = default]
    /\ UNCHANGED <<storeVars, serverVars>>

DeleteGeneric(key) ==
    /\ generic_storage' = delete_generic(key).generic
    /\ ret' = Plain("delete_generic", key, delete_generic(key).ret)
    /\ UNCHANGED <<sessions, inventory, inventory_history, current_mission,
                   mission_history, last_completed_mission, serverVars>>

GetStats ==
    /\ ret' = Plain("get_stats", "", get_stats)
    /\ UNCHANGED <<storeVars, serverVars>>

\* a to_json that keeps what it exported last in the generic storage
ToJson_stores_export(section) ==
    /\ ret' = Plain("to_json", section, to_json(section))
    /\ generic_storage' = With(generic_storage, "last_export", List(<<section>>))
    /\ UNCHANGED <<sessions, inventory, inventory_history, current_mission,
                   mission_history, last_completed_mission, serverVars>>

ToJson(section) ==
    /\ ret' = Plain("to_json", section, to_json(section))
    /\ UNCHANGED <<storeVars, serverVars>>

\* a clear_all that forgets the last completed mission
ClearAll_keeps_last_completed ==
    /\ sessions' = EmptyMap
    /\ inventory' = None
    /\ inventory_history' = <<>>
    /\ current_mission' = None
    /\ mission_history' = <<>>
    /\ generic_storage' = EmptyMap
    /\ ret' = Plain("clear_all", "", None)
    /\ UNCHANGED <<last_completed_mission, serverVars>>

ClearAll ==
    /\ sessions' = EmptyMap
    /\ inventory' = None
    /\ inventory_history' = <<>>
    /\ current_mission' = None
    /\ mission_history' = <<>>
    /\ last_completed_mission' = None
    /\ generic_storage' = EmptyMap
    /\ ret' = Plain("clear_all", "", None)
    /\ UNCHANGED serverVars

\* the caller assigns to an object that the returned value shares with the store:
\* the one object changes, whoever looks at it
MutateShared(p) ==
    /\ p \in ret.shares
    /\ Mutated(At(p)) # At(p)
    /\ sessions' = IF p.slot = "sessions"
                   THEN [sessions EXCEPT ![p.key] = Mutated(@)] ELSE sessions
    /\ inventory' = IF p.slot = "inventory" THEN Mutated(inventory) ELSE inventory
    /\ current_mission' =
           IF p.slot = "mission" THEN Mutated(current_mission) ELSE current_mission
    /\ last_completed_mission' =
           IF p.slot = "completed" THEN Mutated(last_completed_mission)
           ELSE last_completed_mission
    /\ generic_storage' = IF p.slot = "generic"
                          THEN [generic_storage EXCEPT ![p.key] = Mutated(@)]
                          ELSE generic_storage
    /\ ret' = [ret EXCEPT !.val = IF ret.op = "list_sessions"
                                  THEN [@ EXCEPT ![p.key] = Mutated(@)]
                                  ELSE Mutated(@)]
    /\ UNCHANGED <<inventory_history, mission_history, serverVars>>

\* the caller changes the container it was given, where that is a copy:
\* del copy[id] on the dict of list_sessions, copy.append(x) on a history list
MutateOwn ==
    /\ \/ /\ ret.op = "list_sessions"
          /\ \E id \in DOMAIN ret.val :
               ret' = [ret EXCEPT !.val = Without(@, id),
                                  !.shares = @ \ {P("sessions", id)}]
       \/ /\ ret.op \in {"get_inventory_history", "get_mission_history"}
          /\ Len(ret.val) < 2
          /\ ret' = [ret EXCEPT !.val = Append(@, "junk")]
    /\ UNCHANGED <<storeVars, serverVars>>

(***************************************************************************)
(* load_inventory (server.py).  An exception raised anywhere inside the    *)
(* try block is the value Raised; a step applied to Raised stays Raised.   *)
(***************************************************************************)
Raised == [t |-> "raised"]
Garbage == [t |-> "garbage"]    \* text that yaml.safe_load cannot parse

\* parsed_inventory as created at server.py:369-377
EmptyParsed(source_file, loaded_at) ==
    [t |-> "parsed", source_file |-> source_file, loaded_at |-> loaded_at,
     groups |-> <<>>, hosts |-> <<>>, vars |-> <<>>,
     total_hosts |-> 0, total_groups |-> 0]

\* dict.update(other): TypeError / ValueError unless other is a mapping (a
\* string iterates into characters, which are not key/value pairs)
RECURSIVE UpdateEntries(_, _)
UpdateEntries(d, entries) ==
    IF entries = <<>> THEN d
    ELSE UpdateEntries(Put(d, Head(entries).k, Head(entries).v), Tail(entries))

\* the loop over group_data["hosts"].items(), server.py:384-397
RECURSIVE process_hosts(_, _, _, _)
process_hosts(hosts, group_hosts, entries, group_name) ==
    IF entries = <<>> THEN [hosts |-> hosts, group_hosts |-> group_hosts]
    ELSE LET host_name == Head(entries).k
             host_data == Head(entries).v
             host_info == [name |-> host_name,
                           vars |-> IF IsDict(host_data) THEN host_data
                                    ELSE Dict(<<>>),
                           groups |-> <<group_name>>]
             hosts2 == IF Has(hosts, host_name)
                       THEN Put(hosts, host_name,
                                [Get(hosts, host_name)
                                    EXCEPT !.groups = Append(@, group_name)])
                       ELSE Put(hosts, host_name, host_info)
         IN process_hosts(hosts2, Append(group_hosts, host_name),
                          Tail(entries), group_name)

\* `key in group_data`: a dict is searched for the key, a list for the item, a
\* string for the substring (the strings of the model contain none of "hosts",
\* "vars", "children"); None is not iterable
InRaises(group_data) == ~ (group_data.t \in {"dict", "list", "str"})
In(key, group_data) ==
    CASE group_data.t = "dict" -> Has(group_data.e, key)
      [] group_data.t = "list" -> key \in Range(group_data.items)
      [] OTHER -> FALSE

\* process_group, server.py:380-412
process_group(parsed, group_name, group_data) ==
    IF parsed = Raised \/ InRaises(group_data) THEN Raised
    \* group_data["hosts"] on a list that holds "hosts": list indices must be integers
    ELSE IF ~IsDict(group_data)
            /\ \E key \in {"hosts", "vars", "children"} : In(key, group_data)
    THEN Raised
    \* group_data["hosts"].items(): only a dict has items()
    ELSE IF In("hosts", group_data) /\ ~IsDict(Get(group_data.e, "hosts"))
    THEN Raised
    ELSE
      LET ph == IF In("hosts", group_data)
                THEN process_hosts(parsed.hosts, <<>>,
                                   Get(group_data.e, "hosts").e, group_name)
                ELSE [hosts |-> parsed.hosts, group_hosts |-> <<>>]
          group_vars == IF In("vars", group_data) THEN Get(group_data.e, "vars")
                        ELSE Dict(<<>>)
          children == IF In("children", group_data)
                      THEN LET c == Get(group_data.e, "children")
                           IN IF IsDict(c) THEN Keys(c.e)
                              ELSE IF IsList(c) THEN c.items ELSE <<>>
                      ELSE <<>>
          group_info == [hosts |-> ph.group_hosts, vars |-> group_vars,
                         children |-> children]
      IN [parsed EXCEPT !.hosts = ph.hosts,
                        !.groups = Put(parsed.groups, group_name, group_info)]

\* for child_name, child_data in value["children"].items(): process_group(...)
RECURSIVE process_inline_children(_, _)
process_inline_children(parsed, entries) ==
    IF entries = <<>> \/ parsed = Raised THEN parsed
    ELSE process_inline_children(
             process_group(parsed, Head(entries).k, Head(entries).v),
             Tail(entries))

\* for child_name in value["children"]: if child_name in inventory_data: ...
RECURSIVE process_named_children(_, _, _)
process_named_children(parsed, names, inventory_data) ==
    IF names = <<>> \/ parsed = Raised THEN parsed
    ELSE process_named_children(
             IF Has(inventory_data, Head(names))
             THEN process_group(parsed, Head(names), Get(inventory_data, Head(names)))
             ELSE parsed,
             Tail(names), inventory_data)

\* a process_all that dispatches vars and children of `all` and does not go
\* on to process `all` as a group of its own
process_all_not_as_group(parsed, value, inventory_data) ==
    IF ~IsDict(value) THEN parsed
    ELSE
      LET v1 == IF ~Has(value.e, "vars") THEN parsed
                ELSE IF IsDict(Get(value.e, "vars"))
                THEN [parsed EXCEPT
                        !.vars = UpdateEntries(@, Get(value.e, "vars").e)]
                ELSE Raised
          c == Get(value.e, "children")
      IN IF v1 = Raised \/ ~Has(value.e, "children") THEN v1
         ELSE IF IsDict(c) THEN process_inline_children(v1, c.e)
         ELSE IF IsList(c) THEN process_named_children(v1, c.items, inventory_data)
         ELSE IF c.t = "str" THEN v1
         ELSE Raised

\* the branch `if key == "all"`, server.py:416-435
process_all(parsed, value, inventory_data) ==
    IF ~IsDict(value) THEN parsed
    ELSE
      LET v1 == IF ~Has(value.e, "vars") THEN parsed
                ELSE IF IsDict(Get(value.e, "vars"))
                THEN [parsed EXCEPT
                        !.vars = UpdateEntries(@, Get(value.e, "vars").e)]
                \* update("") and update([]) add nothing; None is not
                \* iterable and the items of a string are not pairs
                ELSE IF Get(value.e, "vars").t \in {"str", "list"}
                        /\ ~Truthy(Get(value.e, "vars"))
                THEN parsed
                ELSE Raised
          c == Get(value.e, "children")
          v2 == IF v1 = Raised \/ ~Has(value.e, "children") THEN v1
                ELSE IF IsDict(c) THEN process_inline_children(v1, c.e)
                ELSE IF IsList(c)
                THEN process_named_children(v1, c.items, inventory_data)
                \* a string iterates into characters, none of them a top-level
                \* key; anything else is not iterable
                ELSE IF c.t = "str" THEN v1
                ELSE Raised
      IN process_group(v2, "all", value)

\* for key, value in inventory_data.items(), server.py:415-438
RECURSIVE process_inventory(_, _, _)
process_inventory(parsed, entries, inventory_data) ==
    IF entries = <<>> \/ parsed = Raised THEN parsed
    ELSE LET key == Head(entries).k
             value == Head(entries).v
         IN process_inventory(
                IF key = "all" THEN process_all(parsed, value, inventory_data)
                ELSE IF IsDict(value) /\ ~Has(parsed.groups, key)
                THEN process_group(parsed, key, value)
                ELSE parsed,
                Tail(entries), inventory_data)

\* totals that count every membership of a host instead of every host
RECURSIVE CountMemberships(_)
CountMemberships(groups) ==
    IF groups = <<>> THEN 0
    ELSE Len(Head(groups).v.hosts) + CountMemberships(Tail(groups))
calculate_totals_by_membership(parsed) ==
    IF parsed = Raised THEN Raised
    ELSE [parsed EXCEPT !.total_hosts = CountMemberships(parsed.groups),
                        !.total_groups = Len(parsed.groups)]

\* server.py:440-442
calculate_totals(parsed) ==
    IF parsed = Raised THEN Raised
    ELSE [parsed EXCEPT !.total_hosts = Len(parsed.hosts),
                        !.total_groups = Len(parsed.groups)]

\* everything between yaml.safe_load and the store, server.py:364-442: the
\* inventory built from the document, "empty" or Raised
parse_inventory(inventory_data, source_file, loaded_at) ==
    IF inventory_data = Garbage THEN Raised
    ELSE IF ~Truthy(inventory_data) THEN [t |-> "empty"]
    \* inventory_data.items(): only a dict has items()
    ELSE IF ~IsDict(inventory_data) THEN Raised
    ELSE calculate_totals(
             process_inventory(EmptyParsed(source_file, loaded_at),
                               inventory_data.e, inventory_data.e))

(***************************************************************************)
(* save_inventory (server.py:625-657): the declaration rebuilt from the    *)
(* stored inventory.                                                       *)
(***************************************************************************)
\* group_data["hosts"][host_name] = host_vars or {}, for the group's hosts
RECURSIVE save_hosts(_, _, _)
save_hosts(out, names, hosts) ==
    IF names = <<>> THEN out
    ELSE LET host_name == Head(names)
             host_vars == Get(hosts, host_name).vars
         IN save_hosts(
                IF Has(hosts, host_name)
                THEN Put(out, host_name,
                         IF Truthy(host_vars) THEN host_vars ELSE Dict(<<>>))
                ELSE out,
                Tail(names), hosts)

\* group_data["children"][child] = {}
RECURSIVE save_children(_, _)
save_children(out, names) ==
    IF names = <<>> THEN out
    ELSE save_children(Put(out, Head(names), Dict(<<>>)), Tail(names))

save_group(group_info, hosts) ==
    LET with_hosts == IF group_info.hosts # <<>>
                      THEN <<E("hosts", Dict(save_hosts(<<>>, group_info.hosts, hosts)))>>
                      ELSE <<>>
        with_vars == IF Truthy(group_info.vars)
                     THEN Append(with_hosts, E("vars", group_info.vars))
                     ELSE with_hosts
    IN Dict(IF group_info.children # <<>>
            THEN Append(with_vars,
                        E("children", Dict(save_children(<<>>, group_info.children))))
            ELSE with_vars)

\* for group_name, group_info in inventory["groups"].items(): ...
RECURSIVE save_groups(_, _, _)
save_groups(out, groups, hosts) ==
    IF groups = <<>> THEN out
    ELSE save_groups(Put(out, Head(groups).k, save_group(Head(groups).v, hosts)),
                     Tail(groups), hosts)

\* the ansible_inventory mapping handed to yaml.dump
save_declaration(inv) ==
    Dict(save_groups(IF inv.vars # <<>>
                     THEN <<E("all", Dict(<<E("vars", Dict(inv.vars))>>))>>
                     ELSE <<>>,
                     inv.groups, inv.hosts))

(***************************************************************************)
(* The file system.  A text file holds a YAML document; yaml.dump followed *)
(* by yaml.safe_load gives back the mappings, sequences and scalars dumped.*)
(***************************************************************************)
Missing == [kind |-> "missing", doc |-> None]
Directory == [kind |-> "dir", doc |-> None]
Text(doc) == [kind |-> "text", doc |-> doc]

LoadPaths == {"inv.yml", "alt.yml", "out.yml", "confdir"}
SavePaths == {"out.yml", "/ro/out.yml"}
\* open(path, "w") raises PermissionError
ReadOnly(path) == path = "/ro/out.yml"
FileAt(path) == IF path \in DOMAIN files THEN files[path] ELSE Missing

(***************************************************************************)
(* The inventory tools of server.py as actions.                            *)
(***************************************************************************)
Error(msg) == [status |-> "error", error |-> msg]

\* a load_inventory that stores what it has built before it knows the
\* document is well formed
load_inventory_stores_early(inventory_path) ==
    LET f == FileAt(inventory_path)
        parsed == parse_inventory(f.doc, inventory_path, now)
    IN IF f.kind = "missing"
       THEN [storage |-> inv_storage, payload |-> Error("does not exist")]
       ELSE IF f.kind = "dir"
       THEN [storage |-> inv_storage, payload |-> Error("not a file")]
       ELSE IF parsed.t = "empty"
       THEN [storage |-> inv_storage, payload |-> Error("appears to be empty")]
       ELSE IF parsed = Raised
       THEN [storage |-> [ansible_inventory |-> EmptyParsed(inventory_path, now),
                          inventory_history |-> <<inventory_path>>],
             payload |-> Error("Error loading inventory")]
       ELSE [storage |-> [ansible_inventory |-> parsed,
                          inventory_history |-> <<inventory_path>>],
             payload |-> [status |-> "success",
                          total_hosts |-> parsed.total_hosts,
                          total_groups |-> parsed.total_groups,
                          groups |-> Keys(parsed.groups),
                          hosts |-> Keys(parsed.hosts)]]

\* load_inventory: what it stores and what it returns
load_inventory(inventory_path) ==
    LET f == FileAt(inventory_path)
        parsed == parse_inventory(f.doc, inventory_path, now)
    IN IF f.kind = "missing"
       THEN [storage |-> inv_storage, payload |-> Error("does not exist")]
       ELSE IF f.kind = "dir"
       THEN [storage |-> inv_storage, payload |-> Error("not a file")]
       ELSE IF parsed.t = "empty"
       THEN [storage |-> inv_storage, payload |-> Error("appears to be empty")]
       ELSE IF parsed = Raised
       THEN [storage |-> inv_storage, payload |-> Error("Error loading inventory")]
       ELSE [storage |-> [ansible_inventory |-> parsed,
                          inventory_history |-> <<inventory_path>>],
             payload |-> [status |-> "success",
                          total_hosts |-> parsed.total_hosts,
                          total_groups |-> parsed.total_groups,
                          groups |-> Keys(parsed.groups),
                          hosts |-> Keys(parsed.hosts)]]

LoadInventory(inventory_path) ==
    /\ inv_storage' = load_inventory(inventory_path).storage
    /\ ret' = Plain("load_inventory", inventory_path,
                    load_inventory(inventory_path).payload)
    /\ UNCHANGED <<storeVars, files, reqs, now, tasks, secretVars>>

get_inventory_status ==
    LET inv == inv_storage.ansible_inventory
    IN IF ~Truthy(inv)
       THEN [inventory_loaded |-> FALSE, total_hosts |-> 0, total_groups |-> 0,
             groups |-> <<>>, hosts |-> <<>>,
             history |-> inv_storage.inventory_history]
       ELSE [inventory_loaded |-> TRUE, total_hosts |-> inv.total_hosts,
             total_groups |-> inv.total_groups, groups |-> Keys(inv.groups),
             hosts |-> Keys(inv.hosts),
             history |-> inv_storage.inventory_history]

GetInventoryStatus ==
    /\ ret' = Plain("get_inventory_status", "", get_inventory_status)
    /\ UNCHANGED <<storeVars, serverVars>>

\* the hosts of one group, in the group's order, or all hosts
RECURSIVE filter_hosts(_, _, _)
filter_hosts(out, names, hosts) ==
    IF names = <<>> THEN out
    ELSE filter_hosts(IF Has(hosts, Head(names))
                      THEN Put(out, Head(names), Get(hosts, Head(names))) ELSE out,
                      Tail(names), hosts)

get_inventory_hosts(group_name) ==
    LET inv == inv_storage.ansible_inventory
    IN IF ~Truthy(inv) THEN Error("No inventory loaded")
       ELSE IF group_name # ""
       THEN IF ~Has(inv.groups, group_name) THEN Error("not found in inventory")
            ELSE LET filtered == filter_hosts(<<>>, Get(inv.groups, group_name).hosts,
                                              inv.hosts)
                 IN [status |-> "ok", group |-> group_name,
                     host_count |-> Len(filtered), hosts |-> filtered]
       ELSE [status |-> "ok", group |-> "all", host_count |-> Len(inv.hosts),
             hosts |-> inv.hosts]

GetInventoryHosts(group_name) ==
    /\ ret' = Plain("get_inventory_hosts", group_name,
                    get_inventory_hosts(group_name))
    /\ UNCHANGED <<storeVars, serverVars>>

get_inventory_groups ==
    LET inv == inv_storage.ansible_inventory
    IN IF ~Truthy(inv) THEN Error("No inventory loaded")
       ELSE [status |-> "ok", group_count |-> Len(inv.groups), groups |-> inv.groups]

GetInventoryGroups ==
    /\ ret' = Plain("get_inventory_groups", "", get_inventory_groups)
    /\ UNCHANGED <<storeVars, serverVars>>

SaveInventory(output_path) ==
    LET inv == inv_storage.ansible_inventory
    IN /\ IF ~Truthy(inv)
          THEN /\ files' = files
               /\ ret' = Plain("save_inventory", output_path,
                               Error("No inventory loaded"))
          ELSE IF ReadOnly(output_path)
          THEN /\ files' = files
               /\ ret' = Plain("save_inventory", output_path,
                               Error("Permission denied"))
          ELSE /\ files' = With(files, output_path, Text(save_declaration(inv)))
               /\ ret' = Plain("save_inventory", output_path,
                               [status |-> "success",
                                total_hosts |-> inv.total_hosts,
                                total_groups |-> inv.total_groups,
                                groups |-> Keys(inv.groups)])
       /\ UNCHANGED <<storeVars, inv_storage, reqs, now, tasks, secretVars>>

(***************************************************************************)
(* The declarations the model loads: every shape load_inventory tells      *)
(* apart (a key present or not, a mapping, a sequence, a scalar, nothing), *)
(* over two hosts and the groups all, web and db.                          *)
(***************************************************************************)
Absent == [t |-> "absent"]      \* the key is not in the block
Block(hosts, group_vars, children) ==
    Dict(SelectSeq(<<E("hosts", hosts), E("vars", group_vars),
                     E("children", children)>>,
                   LAMBDA e : e.v # Absent))

NoVars == Dict(<<>>)
IpVars == Dict(<<E("ip", Str("10.0.0.1"))>>)
UserVars == Dict(<<E("user", Str("admin"))>>)
PortVars == Dict(<<E("port", Num(80))>>)
HostDataVals == {None, NoVars, IpVars, UserVars}

HostMaps ==
    {Dict(<<>>), Dict(<<E("h2", IpVars)>>),
     Dict(<<E("h1", NoVars), E("h2", IpVars)>>),
     Dict(<<E("h1", IpVars), E("h2", None)>>)}
    \cup {Dict(<<E("h1", d)>>) : d \in HostDataVals}
HostsVals == {Absent, List(<<"h1">>)} \cup HostMaps

PlainBlocks ==
    {Block(h, v, Absent) : h \in HostsVals, v \in {Absent, PortVars, Str("oops")}}
    \cup {Block(h, v, c) : h \in {Absent, Dict(<<E("h1", NoVars)>>)},
                           v \in {Absent, PortVars},
                           c \in {Dict(<<E("db", NoVars)>>), List(<<"db">>),
                                  Str("db")}}
HostBlocks == {Block(h, Absent, Absent) : h \in HostMaps}
FewHostBlocks ==
    {Block(h, Absent, Absent) :
        h \in {Dict(<<E("h1", NoVars)>>), Dict(<<E("h2", IpVars)>>),
               Dict(<<E("h1", IpVars), E("h2", None)>>), Dict(<<>>)}}
InnerBlocks ==
    {Block(h, v, Absent) : h \in HostsVals, v \in {Absent, PortVars}}
    \cup {None, Str("oops")}
AllBlocks ==
    {Block(Absent, v, c) : v \in {Absent, PortVars, Str("oops"), None},
                           c \in {Absent, None, Str("web"), List(<<"web">>)}}
    \cup {Block(Absent, v, Dict(<<E("web", b)>>)) :
             v \in {Absent, PortVars}, b \in InnerBlocks}
    \cup {Block(Dict(<<E("h1", NoVars)>>), Absent, c) :
             c \in {Absent, Dict(<<E("web", Block(Dict(<<E("h1", IpVars)>>),
                                                Absent, Absent))>>)}}
    \cup {None, List(<<"web">>)}
AllWithWeb ==
    {Block(Absent, Absent, c) :
        c \in {List(<<"web">>), List(<<"web", "web">>), List(<<"ghost">>)}
              \cup {Dict(<<E("web", b)>>) : b \in FewHostBlocks}}

\* the declaration of spec.md section 8
ScenarioDeclaration ==
    Dict(<<E("all", Block(Absent, Absent,
              Dict(<<E("web", Block(Dict(<<E("h1", NoVars), E("h2", IpVars)>>),
                                    PortVars, Absent))>>)))>>)

Documents ==
    {Dict(<<E("web", b)>>) : b \in PlainBlocks \cup {None, Str("oops")}}
    \cup {Dict(<<E("all", b)>>) : b \in AllBlocks}
    \cup {Dict(<<E("web", w), E("all", a)>>) : w \in FewHostBlocks, a \in AllWithWeb}
    \cup {Dict(<<E("all", a), E("web", w)>>) : w \in FewHostBlocks, a \in AllWithWeb}
    \cup {Dict(<<E("web", w), E("db", d)>>) : w \in HostBlocks, d \in FewHostBlocks}
    \cup {Dict(<<E("all", Block(Absent, Absent, Dict(<<E("web", w), E("db", d)>>)))>>) :
             w \in HostBlocks, d \in FewHostBlocks}
    \cup {None, Dict(<<>>), List(<<"web">>), Str("web"), Garbage}

(***************************************************************************)
(* The session tools of server.py.  A tool call is a coroutine: it runs    *)
(* until it awaits, and other requests run while it is suspended.  reqs    *)
(* holds each request with the place it is suspended at (pc).              *)
(***************************************************************************)
RequestIds == {"r0", "r1", "r2"}
UpdateKeys == {"a", "b"}
UpdateValues == {"v"}

\* the local variable session_data of a handler is a reference: either the
\* object that the StateManager holds, or an object it holds no longer
Stored == [t |-> "stored"]

Request(tool, session_id, key, value) ==
    [tool |-> tool, session_id |-> session_id, key |-> key, value |-> value,
     pc |-> "info", session_data |-> None, old_value |-> None,
     data_keys_cleared |-> <<>>]

\* state_manager.set_session(session_id, data) with a new object: handlers
\* that hold the object stored until now keep it, as it is
set_session_new(r, session_id) ==
    [q \in DOMAIN reqs |->
        IF q # r /\ reqs[q].session_id = session_id
                 /\ reqs[q].session_data = Stored
        THEN [reqs[q] EXCEPT !.session_data = sessions[session_id]]
        ELSE reqs[q]]

\* the object a handler's session_data refers to
Local(r) ==
    IF reqs[r].session_data = Stored THEN sessions[reqs[r].session_id]
    ELSE reqs[r].session_data

\* a tool call arrives; the handler runs up to its first await (ctx.info)
BeginStartSessionTracker(r, session_id) ==
    /\ r \notin DOMAIN reqs
    /\ reqs' = With(reqs, r, Request("start_session_tracker", session_id, "", ""))
    /\ UNCHANGED <<storeVars, inv_storage, files, now, ret, tasks, secretVars>>

BeginUpdateSessionData(r, session_id, key, value) ==
    /\ r \notin DOMAIN reqs
    /\ reqs' = With(reqs, r, Request("update_session_data", session_id, key, value))
    /\ UNCHANGED <<storeVars, inv_storage, files, now, ret, tasks, secretVars>>

\* start_session_tracker from its first await to its second
StartSessionTracker(r) ==
    /\ r \in DOMAIN reqs
    /\ reqs[r].tool = "start_session_tracker"
    /\ reqs[r].pc = "info"
    /\ LET session_id == reqs[r].session_id
       IN /\ sessions' = With(sessions, session_id,
                SessionData(session_id, "Test", now, "Unknown", 1,
                            <<SessionActivity(now, "session_started", r, None)>>,
                            <<>>))
          /\ reqs' = [set_session_new(r, session_id) EXCEPT
                        ![r].pc = "debug", ![r].session_data = Stored]
    /\ UNCHANGED <<inventory, inventory_history, current_mission, mission_history,
                   last_completed_mission, generic_storage,
                   inv_storage, files, now, ret, tasks, secretVars>>

\* an update that starts the activity log over with its own entry
record_update_replaces_log(session_data, r) ==
    [session_data EXCEPT
        !.request_count = @ + 1,
        !.last_activity = now,
        !.activities = <<SessionActivity(now, "data_update", r,
                            Str("Updated key '" \o reqs[r].key \o "'"))>>,
        !.session_data = Put(@, reqs[r].key, Str(reqs[r].value))]

\* the lines of update_session_data that record the update in session_data
record_update(session_data, r) ==
    [session_data EXCEPT
        !.request_count = @ + 1,
        !.last_activity = now,
        !.activities = Append(@, SessionActivity(now, "data_update", r,
                            Str("Updated key '" \o reqs[r].key \o "'"))),
        !.session_data = Put(@, reqs[r].key, Str(reqs[r].value))]

\* an old_value that does not read the session
old_value_not_read(session_data, key) == None

old_value(session_data, key) ==
    IF Has(session_data.session_data, key)
    THEN Get(session_data.session_data, key) ELSE None

\* update_session_data from ctx.info on: it reads the session; a session that
\* exists is updated and written back without an await, for a session that
\* does not exist the handler awaits ctx.warning
UpdateSessionData(r) ==
    /\ r \in DOMAIN reqs
    /\ reqs[r].tool = "update_session_data"
    /\ reqs[r].pc = "info"
    /\ LET session_id == reqs[r].session_id
       IN IF get_session(session_id).val # None
          THEN /\ sessions' = [sessions EXCEPT
                                 ![session_id] = record_update(@, r)]
               /\ reqs' = [reqs EXCEPT
                             ![r].pc = "debug",
                             ![r].session_data = Stored,
                             ![r].old_value =
                                 old_value(sessions[session_id], reqs[r].key)]
          ELSE /\ reqs' = [reqs EXCEPT ![r].pc = "warning"]
               /\ UNCHANGED sessions
    /\ UNCHANGED <<inventory, inventory_history, current_mission, mission_history,
                   last_completed_mission, generic_storage,
                   inv_storage, files, now, ret, tasks, secretVars>>

\* an auto-create that counts the creation of the session as a request
UpdateSessionDataAutoCreate_counts_creation(r) ==
    /\ r \in DOMAIN reqs
    /\ reqs[r].pc = "warning"
    /\ LET session_id == reqs[r].session_id
           session_data == SessionData(session_id, "Auto-created", now,
                                       "Unknown", 1, <<>>, <<>>)
       IN /\ sessions' = With(sessions, session_id,
                              record_update(session_data, r))
          /\ reqs' = [set_session_new(r, session_id) EXCEPT
                        ![r].pc = "debug",
                        ![r].session_data = Stored,
                        ![r].old_value = old_value(session_data, reqs[r].key)]
    /\ UNCHANGED <<inventory, inventory_history, current_mission, mission_history,
                   last_completed_mission, generic_storage,
                   inv_storage, files, now, ret, tasks, secretVars>>

\* update_session_data resumed after ctx.warning: it builds the session
\* "Auto-created", records the update in it and stores it
UpdateSessionDataAutoCreate(r) ==
    /\ r \in DOMAIN reqs
    /\ reqs[r].pc = "warning"
    /\ LET session_id == reqs[r].session_id
           session_data == SessionData(session_id, "Auto-created", now,
                                       "Unknown", 0, <<>>, <<>>)
       IN /\ sessions' = With(sessions, session_id,
                              record_update(session_data, r))
          /\ reqs' = [set_session_new(r, session_id) EXCEPT
                        ![r].pc = "debug",
                        ![r].session_data = Stored,
                        ![r].old_value = old_value(session_data, reqs[r].key)]
    /\ UNCHANGED <<inventory, inventory_history, current_mission, mission_history,
                   last_completed_mission, generic_storage,
                   inv_storage, files, now, ret, tasks, secretVars>>

\* a get_session_info that creates the session it does not find
GetSessionInfo_creates_session(r) ==
    /\ r \in DOMAIN reqs
    /\ reqs[r].tool = "get_session_info"
    /\ reqs[r].pc = "info"
    /\ LET session_id == reqs[r].session_id
       IN IF get_session(session_id).val # None
          THEN /\ sessions' = [sessions EXCEPT ![session_id] =
                    [@ EXCEPT
                       !.request_count = @ + 1,
                       !.last_activity = now,
                       !.activities = Append(@,
                           SessionActivity(now, "info_request", r, None))]]
               /\ reqs' = [reqs EXCEPT ![r].pc = "debug",
                                       ![r].session_data = Stored]
          ELSE /\ sessions' = With(sessions, session_id,
                    SessionData(session_id, "Auto-created", now, "Unknown",
                                0, <<>>, <<>>))
               /\ reqs' = [reqs EXCEPT ![r].pc = "debug"]
    /\ UNCHANGED <<inventory, inventory_history, current_mission, mission_history,
                   last_completed_mission, generic_storage,
                   inv_storage, files, now, ret, tasks, secretVars>>

\* a get_session_info that logs the request and does not count it
GetSessionInfo_uncounted(r) ==
    /\ r \in DOMAIN reqs
    /\ reqs[r].tool = "get_session_info"
    /\ reqs[r].pc = "info"
    /\ LET session_id == reqs[r].session_id
       IN IF get_session(session_id).val # None
          THEN /\ sessions' = [sessions EXCEPT ![session_id] =
                    [@ EXCEPT
                       !.last_activity = now,
                       !.activities = Append(@,
                           SessionActivity(now, "info_request", r, None))]]
               /\ reqs' = [reqs EXCEPT ![r].pc = "debug",
                                       ![r].session_data = Stored]
          ELSE /\ reqs' = [reqs EXCEPT ![r].pc = "debug"]
               /\ UNCHANGED sessions
    /\ UNCHANGED <<inventory, inventory_history, current_mission, mission_history,
                   last_completed_mission, generic_storage,
                   inv_storage, files, now, ret, tasks, secretVars>>

\* get_session_info from ctx.info to ctx.debug: a session that exists gets
\* the request counted and logged, and is written back
GetSessionInfo(r) ==
    /\ r \in DOMAIN reqs
    /\ reqs[r].tool = "get_session_info"
    /\ reqs[r].pc = "info"
    /\ LET session_id == reqs[r].session_id
       IN IF get_session(session_id).val # None
          THEN /\ sessions' = [sessions EXCEPT ![session_id] =
                    [@ EXCEPT
                       !.request_count = @ + 1,
                       !.last_activity = now,
                       !.activities = Append(@,
                           SessionActivity(now, "info_request", r, None))]]
               /\ reqs' = [reqs EXCEPT ![r].pc = "debug",
                                       ![r].session_data = Stored]
          ELSE /\ reqs' = [reqs EXCEPT ![r].pc = "debug"]
               /\ UNCHANGED sessions
    /\ UNCHANGED <<inventory, inventory_history, current_mission, mission_history,
                   last_completed_mission, generic_storage,
                   inv_storage, files, now, ret, tasks, secretVars>>

\* a clear_session_data that also starts the activity log over
ClearSessionData_drops_log(r) ==
    /\ r \in DOMAIN reqs
    /\ reqs[r].tool = "clear_session_data"
    /\ reqs[r].pc = "info"
    /\ LET session_id == reqs[r].session_id
           data_count_cleared == Len(sessions[session_id].session_data)
       IN IF get_session(session_id).val # None
          THEN /\ sessions' = [sessions EXCEPT ![session_id] =
                    [@ EXCEPT
                       !.session_data = <<>>,
                       !.request_count = @ + 1,
                       !.last_activity = now,
                       !.activities =
                           <<SessionActivity(now, "data_cleared", r,
                               Str("Cleared " \o ToString(data_count_cleared)
                                   \o " data items"))>>]]
               /\ reqs' = [reqs EXCEPT
                             ![r].pc = "debug",
                             ![r].session_data = Stored,
                             ![r].data_keys_cleared =
                                 Keys(sessions[session_id].session_data)]
          ELSE /\ reqs' = [reqs EXCEPT ![r].pc = "debug"]
               /\ UNCHANGED sessions
    /\ UNCHANGED <<inventory, inventory_history, current_mission, mission_history,
                   last_completed_mission, generic_storage,
                   inv_storage, files, now, ret, tasks, secretVars>>

\* clear_session_data from ctx.info to its next await: the data of a session
\* that exists is emptied, the request counted and logged
ClearSessionData(r) ==
    /\ r \in DOMAIN reqs
    /\ reqs[r].tool = "clear_session_data"
    /\ reqs[r].pc = "info"
    /\ LET session_id == reqs[r].session_id
           data_count_cleared == Len(sessions[session_id].session_data)
       IN IF get_session(session_id).val # None
          THEN /\ sessions' = [sessions EXCEPT ![session_id] =
                    [@ EXCEPT
                       !.session_data = <<>>,
                       !.request_count = @ + 1,
                       !.last_activity = now,
                       !.activities = Append(@,
                           SessionActivity(now, "data_cleared", r,
                               Str("Cleared " \o ToString(data_count_cleared)
                                   \o " data items")))]]
               /\ reqs' = [reqs EXCEPT
                             ![r].pc = "debug",
                             ![r].session_data = Stored,
                             ![r].data_keys_cleared =
                                 Keys(sessions[session_id].session_data)]
          ELSE /\ reqs' = [reqs EXCEPT ![r].pc = "debug"]
               /\ UNCHANGED sessions
    /\ UNCHANGED <<inventory, inventory_history, current_mission, mission_history,
                   last_completed_mission, generic_storage,
                   inv_storage, files, now, ret, tasks, secretVars>>

\* session_data.activities[-5:]
RecentActivities == 5
\* the whole log instead of its tail
recent_activities_all(activities) == activities

recent_activities(activities) ==
    SubSeq(activities,
           IF Len(activities) > RecentActivities
           THEN Len(activities) - RecentActivities + 1 ELSE 1,
           Len(activities))

\* what get_session_info returns
session_info(r) ==
    IF reqs[r].session_data = None
    THEN [session_found |-> FALSE,
          session_id |-> reqs[r].session_id,
          active_sessions |-> DOMAIN list_sessions.val]
    ELSE [session_found |-> TRUE,
          session_id |-> reqs[r].session_id,
          session_name |-> Local(r).session_name,
          start_time |-> Local(r).start_time,
          client_id |-> Local(r).client_id,
          request_count |-> Local(r).request_count,
          last_activity |-> Local(r).last_activity,
          session_data_keys |-> Keys(Local(r).session_data),
          session_data |-> Local(r).session_data,
          recent_activities |-> recent_activities(Local(r).activities),
          total_activities |-> Len(Local(r).activities)]

\* what clear_session_data returns
session_cleared(r) ==
    IF reqs[r].session_data = None
    THEN [status |-> "not_found", session_id |-> reqs[r].session_id]
    ELSE [status |-> "cleared",
          session_id |-> reqs[r].session_id,
          session_name |-> Local(r).session_name,
          data_keys_cleared |-> reqs[r].data_keys_cleared,
          items_cleared |-> Len(reqs[r].data_keys_cleared),
          request_count |-> Local(r).request_count]

\* the payload a session tool returns
session_payload(r) ==
    IF reqs[r].tool = "get_session_info" THEN session_info(r)
    ELSE IF reqs[r].tool = "clear_session_data" THEN session_cleared(r)
    ELSE IF reqs[r].tool = "start_session_tracker"
    THEN [status |-> "started",
          session_id |-> reqs[r].session_id,
          session_name |-> Local(r).session_name,
          start_time |-> Local(r).start_time,
          client_id |-> Local(r).client_id]
    ELSE [status |-> "updated",
          session_id |-> reqs[r].session_id,
          key |-> reqs[r].key,
          old_value |-> reqs[r].old_value,
          new_value |-> reqs[r].value,
          request_count |-> Local(r).request_count,
          last_activity |-> Local(r).last_activity]

\* a handler resumed after its last await returns its payload
ReturnSessionPayload(r) ==
    /\ r \in DOMAIN reqs
    /\ reqs[r].pc = "debug"
    /\ ret' = Plain(reqs[r].tool, reqs[r].session_id, session_payload(r))
    /\ reqs' = [reqs EXCEPT ![r].pc = "done", ![r].session_data = Local(r)]
    /\ UNCHANGED <<storeVars, inv_storage, files, now, tasks, secretVars>>

\* get_session_info and clear_session_data arrive
BeginGetSessionInfo(r, session_id) ==
    /\ r \notin DOMAIN reqs
    /\ reqs' = With(reqs, r, Request("get_session_info", session_id, "", ""))
    /\ UNCHANGED <<storeVars, inv_storage, files, now, ret, tasks, secretVars>>

BeginClearSessionData(r, session_id) ==
    /\ r \notin DOMAIN reqs
    /\ reqs' = With(reqs, r, Request("clear_session_data", session_id, "", ""))
    /\ UNCHANGED <<storeVars, inv_storage, files, now, ret, tasks, secretVars>>

\* the request that has returned is over
EndRequest(r) ==
    /\ r \in DOMAIN reqs
    /\ reqs[r].pc = "done"
    /\ reqs' = Without(reqs, r)
    /\ UNCHANGED <<storeVars, inv_storage, files, now, ret, tasks, secretVars>>

\* time passes between two reads of _get_current_time()
Tick ==
    /\ now < MaxClock
    /\ now' = now + 1
    /\ UNCHANGED <<storeVars, inv_storage, files, reqs, ret, tasks, secretVars>>

(***************************************************************************)
(* MissionWorkflow: the mission tools start_ftl_mission,                   *)
(* update_ftl_mission, get_ftl_mission_status and complete_ftl_mission     *)
(* that example_client.py calls.  They work on the mission slot of the     *)
(* StateManager and follow section 4.3 of the specification.               *)
(***************************************************************************)
MissionNames == {"Kepler-442b Expedition", "Survey"}
Destinations == {"Kepler-442b System"}
StatusArgs == {None, Str("launched")}
FuelConsumedArgs == {0, 85, -100}
DistanceArgs == {0, 5, -5}
AlertArgs == {None, Str("Asteroid field detected - course adjusted")}

MissionAlert(timestamp, message) == [timestamp |-> timestamp, message |-> message]
LowFuelThreshold == 20
LowFuelAlert == MissionAlert(now, "Low fuel warning")
NoActiveMission == Error("No active mission")

\* start(name, destination): the mission that becomes the current one
start_ftl_mission(mission_name, destination) ==
    MissionData(mission_name, destination, "planning")

StartFtlMission(mission_name, destination) ==
    /\ current_mission' =
          set_current_mission(start_ftl_mission(mission_name, destination))
    /\ ret' = Plain("start_ftl_mission", mission_name, current_mission')
    /\ UNCHANGED <<sessions, inventory, inventory_history, mission_history,
                   last_completed_mission, generic_storage, serverVars>>

\* max(0, fuel_level - fuel_consumed)
consume_fuel(fuel_level, fuel_consumed) ==
    IF fuel_level - fuel_consumed < 0 THEN 0 ELSE fuel_level - fuel_consumed

\* alerts that warn only when this update took the fuel level below the
\* threshold
update_alerts_on_crossing(alerts, alert, fuel_level) ==
    LET given == IF alert = None THEN alerts
                 ELSE Append(alerts, MissionAlert(now, alert.s))
    IN IF /\ fuel_level < LowFuelThreshold
          /\ current_mission.fuel_level >= LowFuelThreshold
       THEN Append(given, LowFuelAlert)
       ELSE given

\* the alerts after an update: the caller's alert, if one was given, and then
\* the low-fuel alert, if the fuel level ends below the threshold
update_alerts(alerts, alert, fuel_level) ==
    LET given == IF alert = None THEN alerts
                 ELSE Append(alerts, MissionAlert(now, alert.s))
    IN IF fuel_level < LowFuelThreshold THEN Append(given, LowFuelAlert)
       ELSE given

\* update(status?, fuel_consumed, distance, alert?) on the active mission
update_ftl_mission(mission, status, fuel_consumed, distance, alert) ==
    [mission EXCEPT
        !.status = IF status = None THEN @ ELSE status.s,
        !.fuel_level = consume_fuel(@, fuel_consumed),
        !.distance_traveled = @ + distance,
        !.alerts = update_alerts(@, alert,
                                 consume_fuel(mission.fuel_level, fuel_consumed))]

\* the updates the model follows: fuel, distance and alerts stay in the bounds
InBounds(mission) ==
    /\ mission.fuel_level <= MaxFuel
    /\ mission.distance_traveled <= MaxDistance
    /\ mission.distance_traveled >= 0 - MaxDistance
    /\ Len(mission.alerts) <= MaxAlerts

\* an update that starts from a fresh mission when none is active
UpdateFtlMission_creates_mission(status, fuel_consumed, distance, alert) ==
    LET mission == IF current_mission = None
                   THEN MissionData("Auto-created", "", "planning")
                   ELSE current_mission
    IN /\ InBounds(update_ftl_mission(mission, status, fuel_consumed,
                                      distance, alert))
       /\ current_mission' = update_ftl_mission(mission, status,
                                                fuel_consumed, distance, alert)
       /\ ret' = Plain("update_ftl_mission", "", current_mission')
       /\ UNCHANGED <<sessions, inventory, inventory_history, mission_history,
                      last_completed_mission, generic_storage, serverVars>>

UpdateFtlMission(status, fuel_consumed, distance, alert) ==
    IF get_current_mission.val = None
    THEN /\ ret' = Plain("update_ftl_mission", "", NoActiveMission)
         /\ UNCHANGED <<storeVars, serverVars>>
    ELSE /\ InBounds(update_ftl_mission(current_mission, status, fuel_consumed,
                                        distance, alert))
         /\ current_mission' =
               set_current_mission(
                   update_ftl_mission(get_current_mission.val, status,
                                      fuel_consumed, distance, alert))
         /\ ret' = Plain("update_ftl_mission", "", current_mission')
         /\ UNCHANGED <<sessions, inventory, inventory_history, mission_history,
                        last_completed_mission, generic_storage, serverVars>>

\* status(): a snapshot of the active mission, or the marker for none
get_ftl_mission_status ==
    IF get_current_mission.val = None
    THEN [active_mission |-> None, message |-> "No active mission"]
    ELSE [active_mission |-> get_current_mission.val, message |-> ""]

GetFtlMissionStatus ==
    /\ ret' = Plain("get_ftl_mission_status", "", get_ftl_mission_status)
    /\ UNCHANGED <<storeVars, serverVars>>

\* the completion summary of a mission
completion_summary(mission) ==
    [t |-> "summary",
     mission_name |-> mission.name,
     destination |-> mission.destination,
     total_distance |-> mission.distance_traveled,
     final_fuel_level |-> mission.fuel_level,
     total_alerts |-> Len(mission.alerts),
     completed_at |-> now]

\* complete(): the summary becomes the last completed mission and the
\* mission slot is cleared
CompleteFtlMission ==
    IF get_current_mission.val = None
    THEN /\ ret' = Plain("complete_ftl_mission", "", NoActiveMission)
         /\ UNCHANGED <<storeVars, serverVars>>
    ELSE /\ last_completed_mission' =
               set_last_completed_mission(
                   completion_summary(get_current_mission.val))
         /\ current_mission' = set_current_mission(None)
         /\ ret' = Plain("complete_ftl_mission", "", last_completed_mission')
         /\ UNCHANGED <<sessions, inventory, inventory_history, mission_history,
                        generic_storage, serverVars>>

(***************************************************************************)
(* ftl_integration.py: the TaskLogger, and the tools of server.py that     *)
(* write and read it (ansible_module, get_playbook_tasks,                  *)
(* generate_playbook, clear_playbook_tasks).                               *)
(***************************************************************************)
ModuleNames == {"setup", "command"}
HostLists == {<<>>, <<"localhost">>}
PlaybookNames == {"generated_playbook"}
MaxTasks == 3

\* the task dict of log_task
Task(module_name, hosts, args, timestamp, success, changed) ==
    [name |-> "Execute " \o module_name, module |-> module_name,
     hosts |-> hosts, args |-> args, timestamp |-> timestamp,
     success |-> success, changed |-> changed]

\* what execute_module returns when it returns: the status is always
\* "success"; a failed run raises FTLExecutionError instead
ExecutionResult(module_name, hosts, changed) ==
    [status |-> "success", module |-> module_name, hosts |-> hosts,
     changed |-> changed]

\* TaskLogger.log_task: self.tasks with the task appended
log_task(module_name, hosts, args, result) ==
    Append(tasks, Task(module_name, hosts, args, now,
                       result.status = "success", result.changed))

\* TaskLogger.get_tasks: the stored list if there is one and it is not empty,
\* else self.tasks
get_tasks ==
    IF "playbook_tasks" \in DOMAIN generic_storage
    THEN IF Truthy(generic_storage["playbook_tasks"])
         THEN generic_storage["playbook_tasks"].items
         ELSE tasks
    ELSE tasks

\* a clear_tasks that empties self.tasks and leaves the stored list
clear_tasks_keeps_store == [tasks |-> <<>>, generic |-> generic_storage]

\* TaskLogger.clear_tasks
clear_tasks ==
    [tasks |-> <<>>,
     generic |-> With(generic_storage, "playbook_tasks", List(<<>>))]

notTasks == <<sessions, inventory, inventory_history, current_mission,
              mission_history, last_completed_mission,
              inv_storage, files, reqs, now, secretVars>>

\* an ansible_module that logs the task of a run that raised
AnsibleModule_logs_failure(module_name, hosts, completes, changed) ==
    IF hosts = <<>>
    THEN /\ ret' = Plain("ansible_module", module_name,
                         [error |-> "No valid hosts specified"])
         /\ UNCHANGED <<generic_storage, tasks, notTasks>>
    ELSE LET result == IF completes
                       THEN ExecutionResult(module_name, hosts, changed)
                       ELSE [status |-> "failed", changed |-> FALSE]
             logged == log_task(module_name, hosts, <<>>, result)
         IN /\ tasks' = logged
            /\ generic_storage' =
                  IF completes
                  THEN With(With(generic_storage, "playbook_tasks", List(logged)),
                            "ansible_execution_" \o ToString(now),
                            Dict(<<E("module", Str(module_name)),
                                   E("timestamp", Num(now))>>))
                  ELSE With(generic_storage, "playbook_tasks", List(logged))
            /\ ret' = Plain("ansible_module", module_name,
                            IF completes THEN result
                            ELSE [error |-> "Module execution failed"])
            /\ UNCHANGED notTasks

\* the tool ansible_module: no host: an error; a run that raises: an error,
\* nothing logged; a run that returns: the task is logged and stored, and an
\* execution record is stored under the time of the call
AnsibleModule(module_name, hosts, completes, changed) ==
    IF hosts = <<>>
    THEN /\ ret' = Plain("ansible_module", module_name,
                         [error |-> "No valid hosts specified"])
         /\ UNCHANGED <<generic_storage, tasks, notTasks>>
    ELSE IF ~completes
         THEN /\ ret' = Plain("ansible_module", module_name,
                              [error |-> "Module execution failed"])
              /\ UNCHANGED <<generic_storage, tasks, notTasks>>
         ELSE LET result == ExecutionResult(module_name, hosts, changed)
                  logged == log_task(module_name, hosts, <<>>, result)
              IN /\ tasks' = logged
                 /\ generic_storage' =
                       With(With(generic_storage, "playbook_tasks", List(logged)),
                            "ansible_execution_" \o ToString(now),
                            Dict(<<E("module", Str(module_name)),
                                   E("timestamp", Num(now))>>))
                 /\ ret' = Plain("ansible_module", module_name, result)
                 /\ UNCHANGED notTasks

\* the number of tasks whose field is true
CountTasks(log, field) == Cardinality({i \in 1..Len(log) : log[i][field]})

\* what get_playbook_tasks returns for the tasks it got
playbook_tasks_summary(log) ==
    [tasks |-> log,
     summary |->
        [total_tasks |-> Len(log),
         successful_tasks |-> CountTasks(log, "success"),
         failed_tasks |-> Len(log) - CountTasks(log, "success"),
         changed_tasks |-> CountTasks(log, "changed"),
         unique_hosts |-> UNION {Range(log[i].hosts) : i \in 1..Len(log)},
         unique_modules |-> {log[i].module : i \in 1..Len(log)},
         host_count |->
             Cardinality(UNION {Range(log[i].hosts) : i \in 1..Len(log)}),
         module_count |-> Cardinality({log[i].module : i \in 1..Len(log)})]]

\* the tool get_playbook_tasks
GetPlaybookTasks ==
    /\ tasks' = get_tasks
    /\ ret' = Plain("get_playbook_tasks", "", playbook_tasks_summary(get_tasks))
    /\ UNCHANGED <<generic_storage, notTasks>>

\* a selection that takes every task
select_all_tasks(log, include_failed) == log

\* the tasks generate_playbook goes on with
select_tasks(log, include_failed) ==
    IF ~include_failed
    THEN SelectSeq(log, LAMBDA t : t.success)
    ELSE log

\* a task in playbook format: its name, and its arguments under the module
playbook_task(task) ==
    [name |-> task.name, module |-> task.module, args |-> task.args]

\* what generate_playbook returns for the tasks it got
generated_playbook(playbook_name, include_failed, log) ==
    LET selected == select_tasks(log, include_failed)
        all_hosts == UNION {Range(selected[i].hosts) : i \in 1..Len(selected)}
        gather_facts == \E i \in 1..Len(selected) : selected[i].module = "setup"
    IN IF selected = <<>>
       THEN [error |-> "No tasks recorded or all tasks failed"]
       ELSE [status |-> "success",
             playbook_name |-> playbook_name,
             playbook |->
                [name |-> playbook_name,
                 hosts |-> "{{ target_hosts | default('all') }}",
                 gather_facts |-> gather_facts,
                 tasks |-> [i \in 1..Len(selected) |-> playbook_task(selected[i])]],
             metadata |->
                [task_count |-> Len(selected),
                 host_count |-> Cardinality(all_hosts),
                 hosts |-> all_hosts,
                 modules_used |-> {selected[i].module : i \in 1..Len(selected)},
                 gather_facts |-> gather_facts,
                 generated_at |-> now]]

\* the tool generate_playbook
GeneratePlaybook(playbook_name, include_failed) ==
    /\ tasks' = get_tasks
    /\ ret' = Plain("generate_playbook", playbook_name,
                    generated_playbook(playbook_name, include_failed, get_tasks))
    /\ UNCHANGED <<generic_storage, notTasks>>

\* the tool clear_playbook_tasks
ClearPlaybookTasks ==
    /\ tasks' = clear_tasks.tasks
    /\ generic_storage' = clear_tasks.generic
    /\ ret' = Plain("clear_playbook_tasks", "",
                    [status |-> "success",
                     tasks_cleared |-> Len(get_tasks),
                     cleared_at |-> now])
    /\ UNCHANGED notTasks

\* task lists another user of the StateManager stores under "playbook_tasks"
StoredTaskLists ==
    {List(<<Task("command", <<"localhost">>, <<>>, 0, FALSE, FALSE)>>),
     List(<<Task("setup", <<"localhost">>, <<>>, 0, TRUE, FALSE),
            Task("command", <<"localhost">>, <<>>, 0, FALSE, FALSE),
            Task("command", <<"web1">>, <<>>, 0, TRUE, TRUE)>>)}

(***************************************************************************)
(* secrets.py: the SecretsManager, its sources (os.environ and the file    *)
(* ~/.ftl_mcp_secrets.enc) and the secrets tools of server.py.  Every      *)
(* operator takes the manager it works on, so that the same call can be    *)
(* made on secrets_manager and on the second store.                        *)
(***************************************************************************)
\* the names callers and sources use, and str.lower() on them
LookupNames == {"api_key", "API_KEY", "token"}
SetNames == {"Api_Key", "token"}
lower(name) ==
    CASE name \in {"api_key", "API_KEY", "Api_Key"} -> "api_key"
      [] OTHER -> name

\* the environment variables of the model; env_var.startswith("FTL_SECRET_")
\* and env_var[11:]
EnvVars == {"FTL_SECRET_API_KEY", "HOME"}
starts_with_secret_prefix(env_var) == env_var = "FTL_SECRET_API_KEY"
without_secret_prefix(env_var) ==
    CASE env_var = "FTL_SECRET_API_KEY" -> "API_KEY"

\* the values of the model: one for each way a secret gets into the manager
RuntimeValues == {"set"}
EnvSettings == {<<"FTL_SECRET_API_KEY", "env">>, <<"HOME", "/root">>}
FileValues == {"file"}
\* the value the second store holds where the first holds value
Other(value) == value \o "*"
EncryptionKeys == {"k1", "k2"}
Descriptions == {"set at runtime"}
TagArgs == {<<>>, <<"prod">>}

SecretMetadata(name, description, created_at, updated_at, tags) ==
    [name |-> name, description |-> description, created_at |-> created_at,
     updated_at |-> updated_at, tags |-> tags]

\* SecretsManager.__init__ before the sources are loaded
NewSecretsManager(key) ==
    [_secrets |-> <<>>, _metadata |-> <<>>, _encryption_key |-> key]

\* one pass of the loop of _load_from_environment
load_env_var(m, env_var, value) ==
    IF starts_with_secret_prefix(env_var)
    THEN LET secret_name == lower(without_secret_prefix(env_var))
         IN [m EXCEPT
               !._secrets = Put(@, secret_name, value),
               !._metadata = Put(@, secret_name,
                   SecretMetadata(secret_name,
                       "Loaded from environment variable " \o env_var,
                       now, now, <<"environment", "auto-loaded">>))]
    ELSE m

RECURSIVE load_env_from(_, _, _)
load_env_from(m, env, i) ==
    IF i > Len(env)
    THEN m
    ELSE load_env_from(load_env_var(m, env[i].k, env[i].v), env, i + 1)

_load_from_environment(m, env) == load_env_from(m, env, 1)

\* secret_info.get(key, default) on an entry of the decrypted file
info_get(secret_info, key, default) ==
    IF key \in DOMAIN secret_info THEN secret_info[key] ELSE default

\* an entry of the file in the legacy format is the bare value
IsLegacy(secret_info) == "legacy" \in DOMAIN secret_info

\* one pass of the loop of _load_from_encrypted_file: the name is the key as
\* it is written in the file
load_file_entry(m, secret_name, secret_info) ==
    IF IsLegacy(secret_info)
    THEN [m EXCEPT
            !._secrets = Put(@, secret_name, secret_info.legacy),
            !._metadata = Put(@, secret_name,
                SecretMetadata(secret_name, "Loaded from encrypted file",
                               now, now, <<"encrypted-file", "legacy">>))]
    ELSE [m EXCEPT
            !._secrets = Put(@, secret_name, secret_info.value),
            !._metadata = Put(@, secret_name,
                SecretMetadata(secret_name,
                    info_get(secret_info, "description", ""),
                    info_get(secret_info, "created_at", now),
                    info_get(secret_info, "updated_at", now),
                    info_get(secret_info, "tags", <<"encrypted-file">>)))]

\* the loop stops at the first dict entry without "value" (KeyError, caught
\* by `except Exception: pass`); what was loaded before it stays
RECURSIVE load_file_from(_, _, _)
load_file_from(m, data, i) ==
    IF i > Len(data)
    THEN m
    ELSE IF ~IsLegacy(data[i].v) /\ "value" \notin DOMAIN data[i].v
         THEN m
         ELSE load_file_from(load_file_entry(m, data[i].k, data[i].v),
                             data, i + 1)

\* no file, or a file that this manager's key does not decrypt: nothing loaded
_load_from_encrypted_file(m, file) ==
    IF file = None
    THEN m
    ELSE IF file.key # m._encryption_key
         THEN m
         ELSE load_file_from(m, file.data, 1)

_load_secrets(m, env, file) ==
    _load_from_encrypted_file(_load_from_environment(m, env), file)

\* SecretsManager(): the key, then the sources
SecretsManager(key, env, file) == _load_secrets(NewSecretsManager(key), env, file)

\* return self._secrets.get(name.lower())
get_secret(m, name) ==
    IF Has(m._secrets, lower(name)) THEN Str(Get(m._secrets, lower(name))) ELSE None

\* return name.lower() in self._secrets
has_secret(m, name) == Has(m._secrets, lower(name))

list_secret_names(m) == Keys(m._secrets)

\* return self._metadata.get(name.lower())
get_secret_metadata(m, name) ==
    IF Has(m._metadata, lower(name)) THEN Get(m._metadata, lower(name)) ELSE None

\* tags or ["runtime"]
set_secret(m, name, value, description, tags) ==
    LET secret_name == lower(name)
    IN [m EXCEPT
          !._secrets = Put(@, secret_name, value),
          !._metadata = Put(@, secret_name,
              SecretMetadata(secret_name, description, now, now,
                             IF tags = <<>> THEN <<"runtime">> ELSE tags))]

\* self._metadata.get(name), by the name as stored
metadata_of(m, name) ==
    IF Has(m._metadata, name) THEN Get(m._metadata, name) ELSE None

\* the secrets_data of save_to_encrypted_file: every secret whose metadata
\* does not carry the tag environment
RECURSIVE secrets_data_from(_, _)
secrets_data_from(m, i) ==
    IF i > Len(m._secrets)
    THEN <<>>
    ELSE LET name == m._secrets[i].k
             metadata == metadata_of(m, name)
         IN (IF metadata # None /\ "environment" \notin Range(metadata.tags)
             THEN <<E(name, [value |-> m._secrets[i].v,
                             description |-> metadata.description,
                             created_at |-> metadata.created_at,
                             updated_at |-> metadata.updated_at,
                             tags |-> metadata.tags])>>
             ELSE <<>>)
            \o secrets_data_from(m, i + 1)

save_to_encrypted_file(m) ==
    [key |-> m._encryption_key, data |-> secrets_data_from(m, 1)]

\* the number of metadata entries that carry tag
TagCount(m, tag) ==
    Cardinality({i \in 1..Len(m._metadata) : tag \in Range(m._metadata[i].v.tags)})

\* tag_counts: the tags of all metadata, with the number of entries each is on
AllTags(m) == UNION {Range(m._metadata[i].v.tags) : i \in 1..Len(m._metadata)}

get_secrets_stats(m) ==
    [total_secrets |-> Len(m._secrets),
     sources |-> [environment |-> TagCount(m, "environment"),
                  encrypted_file |-> TagCount(m, "encrypted-file"),
                  runtime |-> TagCount(m, "runtime")],
     tags |-> [tag \in AllTags(m) |-> TagCount(m, tag)],
     has_encryption_key |-> TRUE]

\* the names whose metadata (by the name as stored) carries tag
Tagged(m, tag) ==
    {i \in 1..Len(m._secrets) :
        /\ metadata_of(m, m._secrets[i].k) # None
        /\ tag \in Range(metadata_of(m, m._secrets[i].k).tags)}

reload_secrets(m, env, file) ==
    LET cleared == [m EXCEPT !._secrets = <<>>, !._metadata = <<>>]
        reloaded == _load_secrets(cleared, env, file)
    IN [m |-> reloaded,
        ret |-> [status |-> "success",
                 initial_count |-> Len(m._secrets),
                 final_count |-> Len(reloaded._secrets),
                 reloaded_environment |->
                     Cardinality(Tagged(reloaded, "environment")),
                 reloaded_encrypted_file |->
                     Cardinality(Tagged(reloaded, "encrypted-file"))]]

\* the secrets_info of get_secrets_status: for every stored name the metadata
\* found by get_secret_metadata, where there is one
RECURSIVE secrets_info_from(_, _)
secrets_info_from(m, i) ==
    IF i > Len(m._secrets)
    THEN <<>>
    ELSE LET metadata == get_secret_metadata(m, m._secrets[i].k)
         IN (IF metadata # None
             THEN <<[name |-> metadata.name,
                     description |-> metadata.description,
                     created_at |-> metadata.created_at,
                     updated_at |-> metadata.updated_at,
                     tags |-> metadata.tags]>>
             ELSE <<>>)
            \o secrets_info_from(m, i + 1)

\* a secrets_info with the value of each secret in it
secrets_info_with_values(m) ==
    [i \in 1..Len(m._secrets) |->
        [name |-> m._secrets[i].k, value |-> m._secrets[i].v]]

secrets_info(m) == secrets_info_from(m, 1)

\* what get_secrets_status returns
secrets_status(m) ==
    [status |-> "success",
     statistics |-> get_secrets_stats(m),
     secrets |-> secrets_info(m)]

\* what check_secret_exists returns
secret_exists(m, name) ==
    IF has_secret(m, name) /\ get_secret_metadata(m, name) # None
    THEN [secret_name |-> name,
          exists |-> TRUE,
          metadata |->
             [description |-> get_secret_metadata(m, name).description,
              created_at |-> get_secret_metadata(m, name).created_at,
              updated_at |-> get_secret_metadata(m, name).updated_at,
              tags |-> get_secret_metadata(m, name).tags]]
    ELSE [secret_name |-> name, exists |-> has_secret(m, name)]

\* what the tool reload_secrets returns for the manager's result
reload_summary(result) ==
    [status |-> "success",
     reload_summary |->
        [initial_secret_count |-> result.initial_count,
         final_secret_count |-> result.final_count,
         reloaded_from_environment |-> result.reloaded_environment,
         reloaded_from_encrypted_file |-> result.reloaded_encrypted_file],
     message |-> "Successfully reloaded " \o ToString(result.final_count)
                    \o " secrets from external sources."]

\* the other variables of a step on the secrets manager
notSecrets == <<storeVars, inv_storage, files, reqs, now, tasks>>

SetSecret(name, value, description, tags) ==
    /\ secrets_manager' = set_secret(secrets_manager, name, value, description, tags)
    /\ ret' = Plain("set_secret", name, TRUE)
    /\ twin' = [twin EXCEPT
                  !.secrets_manager = set_secret(@, name, Other(value),
                                                 description, tags),
                  !.ret = Plain("set_secret", name, TRUE)]
    /\ UNCHANGED <<notSecrets, environ, secrets_file>>

GetSecret(name) ==
    /\ ret' = Plain("get_secret", name, get_secret(secrets_manager, name))
    /\ twin' = [twin EXCEPT
                  !.ret = Plain("get_secret", name,
                                get_secret(twin.secrets_manager, name))]
    /\ UNCHANGED <<notSecrets, secrets_manager, environ, secrets_file>>

HasSecret(name) ==
    /\ ret' = Plain("has_secret", name, has_secret(secrets_manager, name))
    /\ twin' = [twin EXCEPT
                  !.ret = Plain("has_secret", name,
                                has_secret(twin.secrets_manager, name))]
    /\ UNCHANGED <<notSecrets, secrets_manager, environ, secrets_file>>

GetSecretMetadata(name) ==
    /\ ret' = Plain("get_secret_metadata", name,
                    get_secret_metadata(secrets_manager, name))
    /\ twin' = [twin EXCEPT
                  !.ret = Plain("get_secret_metadata", name,
                                get_secret_metadata(twin.secrets_manager, name))]
    /\ UNCHANGED <<notSecrets, secrets_manager, environ, secrets_file>>

SaveToEncryptedFile ==
    /\ secrets_file' = save_to_encrypted_file(secrets_manager)
    /\ ret' = Plain("save_to_encrypted_file", "", TRUE)
    /\ twin' = [twin EXCEPT
                  !.secrets_file = save_to_encrypted_file(twin.secrets_manager),
                  !.ret = Plain("save_to_encrypted_file", "", TRUE)]
    /\ UNCHANGED <<notSecrets, secrets_manager, environ>>

\* the tool get_secrets_status
GetSecretsStatus ==
    /\ ret' = Plain("get_secrets_status", "", secrets_status(secrets_manager))
    /\ twin' = [twin EXCEPT
                  !.ret = Plain("get_secrets_status", "",
                                secrets_status(twin.secrets_manager))]
    /\ UNCHANGED <<notSecrets, secrets_manager, environ, secrets_file>>

\* the tool check_secret_exists
CheckSecretExists(name) ==
    /\ ret' = Plain("check_secret_exists", name,
                    secret_exists(secrets_manager, name))
    /\ twin' = [twin EXCEPT
                  !.ret = Plain("check_secret_exists", name,
                                secret_exists(twin.secrets_manager, name))]
    /\ UNCHANGED <<notSecrets, secrets_manager, environ, secrets_file>>

\* the tool reload_secrets, with SecretsManager.reload_secrets in it
ReloadSecrets ==
    LET result == reload_secrets(secrets_manager, environ, secrets_file)
        other == reload_secrets(twin.secrets_manager, twin.environ,
                                twin.secrets_file)
    IN /\ secrets_manager' = result.m
       /\ ret' = Plain("reload_secrets", "", reload_summary(result.ret))
       /\ twin' = [twin EXCEPT
                     !.secrets_manager = other.m,
                     !.ret = Plain("reload_secrets", "", reload_summary(other.ret))]
       /\ UNCHANGED <<notSecrets, environ, secrets_file>>

\* the process environment is given a variable, or loses one
Putenv(env_var, value) ==
    /\ environ' = Put(environ, env_var, value)
    /\ twin' = [twin EXCEPT
                  !.environ = Put(@, env_var,
                                  IF starts_with_secret_prefix(env_var)
                                  THEN Other(value) ELSE value)]
    /\ UNCHANGED <<notSecrets, secrets_manager, secrets_file, ret>>

Unsetenv(env_var) ==
    /\ Has(environ, env_var)
    /\ environ' = SelectSeq(environ, LAMBDA e : e.k # env_var)
    /\ twin' = [twin EXCEPT
                  !.environ = SelectSeq(@, LAMBDA e : e.k # env_var)]
    /\ UNCHANGED <<notSecrets, secrets_manager, secrets_file, ret>>

\* the files an administrator puts at ~/.ftl_mcp_secrets.enc: names in any
\* casing, entries in the dict and in the legacy format, and an entry without
\* "value"
FileShapes == {"upper", "described", "broken"}
written_file(shape, value) ==
    CASE shape = "upper" -> <<E("API_KEY", [value |-> value])>>
      [] shape = "described" ->
            <<E("api_key", [value |-> value, description |-> "from file"])>>
      [] shape = "broken" ->
            <<E("token", [legacy |-> value]),
              E("db", [description |-> "no value"]),
              E("api_key", [value |-> value])>>

WriteSecretsFile(key, shape, value) ==
    /\ secrets_file' = [key |-> key, data |-> written_file(shape, value)]
    /\ twin' = [twin EXCEPT
                  !.secrets_file = [key |-> key,
                                    data |-> written_file(shape, Other(value))]]
    /\ UNCHANGED <<notSecrets, secrets_manager, environ, ret>>

RemoveSecretsFile ==
    /\ secrets_file # None
    /\ secrets_file' = None
    /\ twin' = [twin EXCEPT !.secrets_file = None]
    /\ UNCHANGED <<notSecrets, secrets_manager, environ, ret>>

(***************************************************************************)
(* ftl_integration.py: the inventory FTLExecutor builds for a module run,  *)
(* from the loaded inventory of server.py or from the secrets.             *)
(***************************************************************************)
\* the lists of target hosts of the model
TargetHostLists ==
    {<<>>, <<"h1">>, <<"h1", "h2">>, <<"h2", "h1", "h2">>, <<"localhost">>,
     <<"localhost", "h1">>, <<"h1", "ghost">>}

\* a test that is content with one of the hosts
_hosts_in_some_inventory(hosts, mcp_inventory) ==
    \E i \in 1..Len(hosts) : Has(mcp_inventory.hosts, hosts[i])

\* all(host in inventory_hosts for host in hosts)
_hosts_in_inventory(hosts, mcp_inventory) ==
    \A i \in 1..Len(hosts) : Has(mcp_inventory.hosts, hosts[i])

\* the loop over target_hosts of _convert_mcp_inventory_to_ftl
RECURSIVE convert_hosts(_, _, _)
convert_hosts(ftl_hosts, mcp_inventory, target_hosts) ==
    IF target_hosts = <<>> THEN ftl_hosts
    ELSE LET host_name == Head(target_hosts)
         IN convert_hosts(
                Put(ftl_hosts, host_name,
                    IF Has(mcp_inventory.hosts, host_name)
                    THEN Get(mcp_inventory.hosts, host_name).vars
                    ELSE Dict(<<>>)),
                mcp_inventory, Tail(target_hosts))

_convert_mcp_inventory_to_ftl(mcp_inventory, target_hosts) ==
    [all |-> [hosts |-> convert_hosts(<<>>, mcp_inventory, target_hosts),
              vars |-> mcp_inventory.vars]]

\* the vars of the basic inventory: the ssh option, and the credentials the
\* secrets hold
SshSecrets ==
    <<E("ssh_user", "ansible_user"), E("ssh_password", "ansible_password"),
      E("ssh_key_file", "ansible_ssh_private_key_file")>>

RECURSIVE basic_vars(_, _)
basic_vars(inventory_vars, secret_names) ==
    IF secret_names = <<>> THEN inventory_vars
    ELSE LET secret == get_secret(secrets_manager, Head(secret_names).k)
         IN basic_vars(IF Truthy(secret)
                       THEN Put(inventory_vars, Head(secret_names).v, secret)
                       ELSE inventory_vars,
                       Tail(secret_names))

LocalConnection ==
    Dict(<<E("ansible_connection", Str("local")),
           E("ansible_python_interpreter", Str("/usr/bin/python3"))>>)

\* the loop over hosts of _create_basic_inventory
RECURSIVE basic_hosts(_, _)
basic_hosts(inventory_hosts, hosts) ==
    IF hosts = <<>> THEN inventory_hosts
    ELSE basic_hosts(Put(inventory_hosts, Head(hosts),
                         IF Head(hosts) = "localhost" THEN LocalConnection
                         ELSE Dict(<<>>)),
                     Tail(hosts))

_create_basic_inventory(hosts) ==
    [all |-> [hosts |-> basic_hosts(<<>>, hosts),
              vars |-> basic_vars(
                  <<E("ansible_ssh_common_args",
                      Str("-o StrictHostKeyChecking=no"))>>,
                  SshSecrets)]]

_create_inventory_for_hosts(hosts) ==
    LET existing_inventory == inv_storage.ansible_inventory
    IN IF Truthy(existing_inventory)
          /\ _hosts_in_inventory(hosts, existing_inventory)
       THEN _convert_mcp_inventory_to_ftl(existing_inventory, hosts)
       ELSE _create_basic_inventory(hosts)

\* FTLExecutor._create_inventory_for_hosts is called for a module run
CreateInventoryForHosts(hosts) ==
    /\ ret' = Plain("_create_inventory_for_hosts", "",
                    [target_hosts |-> hosts,
                     inventory |-> _create_inventory_for_hosts(hosts)])
    /\ UNCHANGED <<storeVars, serverVars>>

(***************************************************************************)
(* Specifications.                                                         *)
(***************************************************************************)
StoreInit ==
    /\ sessions = EmptyMap
    /\ inventory = None
    /\ inventory_history = <<>>
    /\ current_mission = None
    /\ mission_history = <<>>
    /\ last_completed_mission = None
    /\ generic_storage = EmptyMap

\* The StateManager as its callers use it, one call at a time.
\* no task logged; a SecretsManager constructed in an environment without
\* secrets and without a secrets file
ToolInit ==
    /\ tasks = <<>>
    /\ environ = <<>>
    /\ secrets_file = None
    /\ secrets_manager = SecretsManager("k1", <<>>, None)
    /\ twin = [secrets_manager |-> SecretsManager("k1", <<>>, None),
               environ |-> <<>>, secrets_file |-> None, ret |-> NoRet]

Init ==
    /\ StoreInit
    /\ inv_storage = [ansible_inventory |-> None, inventory_history |-> <<>>]
    /\ files = EmptyMap
    /\ reqs = EmptyMap
    /\ now = 0
    /\ ret = NoRet
    /\ ToolInit

Next ==
    \/ \E id \in SessionIds : \E data \in SessionVals(id) : SetSession(id, data)
    \/ \E id \in SessionIds : GetSession(id)
    \/ ListSessions
    \/ \E id \in SessionIds : DeleteSession(id)
    \/ \E data \in InventoryVals : SetInventory(data)
    \/ GetInventory
    \/ \E h \in HistoryVals : SetInventoryHistory(h)
    \/ GetInventoryHistory
    \/ ClearInventory
    \/ \E data \in MissionVals \cup {None} : SetCurrentMission(data)
    \/ GetCurrentMission
    \/ \E h \in HistoryVals : SetMissionHistory(h)
    \/ GetMissionHistory
    \/ \E data \in CompletedVals \cup {None} : SetLastCompletedMission(data)
    \/ GetLastCompletedMission
    \/ \E key \in GenericKeys : \E value \in GenericVals : SetGeneric(key, value)
    \/ \E key \in GenericKeys : \E default \in {None, Str("fallback")} :
          GetGeneric(key, default)
    \/ \E key \in GenericKeys : DeleteGeneric(key)
    \/ GetStats
    \/ \E section \in {"sessions", "inventory", "mission", "generic", "", "bogus"} :
          ToJson(section)
    \/ ClearAll

Spec == Init /\ [][Next]_vars

\* The same, with callers that also write to the values they were handed.
NextAlias ==
    \/ Next
    \/ \E p \in ret.shares : MutateShared(p)
    \/ MutateOwn

SpecAlias == Init /\ [][NextAlias]_vars

(***************************************************************************)
(* Claims about the StateManager.                                          *)
(***************************************************************************)
ReadOps == {"get_session", "list_sessions", "get_inventory", "get_current_mission",
            "get_generic", "get_inventory_history", "get_mission_history"}

\* what the same read returns when it is made again now
ReadAgain(op, key, default) ==
    CASE op = "get_session" -> get_session(key).val
      [] op = "list_sessions" -> list_sessions.val
      [] op = "get_inventory" -> get_inventory.val
      [] op = "get_current_mission" -> get_current_mission.val
      [] op = "get_generic" -> get_generic(key, default).val
      [] op = "get_inventory_history" -> get_inventory_history.val
      [] op = "get_mission_history" -> get_mission_history.val

\* C1: a collection-valued read returns an independent copy: whatever the
\* caller does to the value it was handed, as long as no set_* (or delete or
\* clear) is called, the same read made again returns the value as it was
\* stored when it was first read.
C1_ReadsReturnIndependentCopies ==
    ret.op \in ReadOps => ReadAgain(ret.op, ret.key, ret.default) = ret.snap

\* C9: in every reachable state stats() counts the collections: sessions,
\* generic keys, the presence of the inventory and of the mission, and their sum;
\* and that is what a get_stats call returns.
ExpectedStats ==
    [active_sessions |-> Cardinality(DOMAIN sessions),
     inventory_loaded |-> inventory # None,
     active_mission |-> current_mission # None,
     generic_items |-> Cardinality(DOMAIN generic_storage),
     total_memory_items |->
         Cardinality(DOMAIN sessions)
         + (IF inventory # None THEN 1 ELSE 0)
         + (IF current_mission # None THEN 1 ELSE 0)
         + Cardinality(DOMAIN generic_storage)]

C9_StatsCountTheCollections ==
    /\ get_stats = ExpectedStats
    /\ ret.op = "get_stats" => ret.val = ExpectedStats

\* a get_stats call made with one session, the inventory, a mission and one
\* generic item stored (test_concurrent_data_management)
C9_Witness ==
    /\ ret.op = "get_stats"
    /\ ret.val.total_memory_items = 4
    /\ ret.val.active_sessions = 1
    /\ ret.val.inventory_loaded
    /\ ret.val.active_mission
    /\ ret.val.generic_items = 1

\* C10: delete_session(id) and delete_generic(key) return true exactly when the
\* key was present just before the call; after the call the key is absent
\* (get_session gives None, get_generic the default), every other key and
\* every other collection is as before, and the same delete repeated at once
\* returns false.
C10_DeleteReturnsPresence ==
    [][/\ \A id \in SessionIds :
            (ret'.op = "delete_session" /\ ret'.key = id) =>
                /\ ret'.val = (id \in DOMAIN sessions)
                /\ id \notin DOMAIN sessions'
                /\ get_session(id)'.val = None
                /\ DOMAIN sessions' = DOMAIN sessions \ {id}
                /\ \A k \in DOMAIN sessions' : sessions'[k] = sessions[k]
                /\ UNCHANGED <<inventory, inventory_history, current_mission,
                               mission_history, last_completed_mission,
                               generic_storage>>
                /\ (ret.op = "delete_session" /\ ret.key = id) => ret'.val = FALSE
       /\ \A key \in GenericKeys :
            (ret'.op = "delete_generic" /\ ret'.key = key) =>
                /\ ret'.val = (key \in DOMAIN generic_storage)
                /\ key \notin DOMAIN generic_storage'
                /\ \A d \in {None, Str("fallback")} : get_generic(key, d)'.val = d
                /\ DOMAIN generic_storage' = DOMAIN generic_storage \ {key}
                /\ \A k \in DOMAIN generic_storage' :
                       generic_storage'[k] = generic_storage[k]
                /\ UNCHANGED <<sessions, inventory, inventory_history,
                               current_mission, mission_history,
                               last_completed_mission>>
                /\ (ret.op = "delete_generic" /\ ret.key = key) => ret'.val = FALSE
      ]_vars

\* a delete_session that found its id and left the other session stored
C10_Witness ==
    /\ ret.op = "delete_session"
    /\ ret.val = TRUE
    /\ ret.key \notin DOMAIN sessions
    /\ DOMAIN sessions # {}

Defaults == {None, Str("fallback")}

\* C11: clear_all, from any state, resets every collection: right after it
\* list_sessions is empty, get_inventory, get_current_mission and
\* get_last_completed_mission are absent, both histories are empty, every
\* get_generic returns its default and stats().total_memory_items is 0.
C11_ClearAllResetsEverything ==
    ret.op = "clear_all" =>
        /\ list_sessions.val = EmptyMap
        /\ \A id \in SessionIds : get_session(id).val = None
        /\ get_inventory.val = None
        /\ get_current_mission.val = None
        /\ get_last_completed_mission.val = None
        /\ get_inventory_history.val = <<>>
        /\ get_mission_history.val = <<>>
        /\ \A key \in GenericKeys : \A d \in Defaults :
              get_generic(key, d).val = d
        /\ get_stats.total_memory_items = 0
        /\ get_stats.active_sessions = 0
        /\ get_stats.generic_items = 0
        /\ ~get_stats.inventory_loaded
        /\ ~get_stats.active_mission

\* the store right after a clear_all
C11_Witness ==
    /\ ret.op = "clear_all"
    /\ sessions = EmptyMap
    /\ generic_storage = EmptyMap
    /\ get_stats.total_memory_items = 0

\* C12: clear_inventory makes the inventory absent and the inventory history
\* empty and leaves sessions, the current mission, the mission history, the
\* last completed mission and the generic storage as they were.
C12_ClearInventoryFrame ==
    [][ret'.op = "clear_inventory" =>
         /\ get_inventory'.val = None
         /\ get_inventory_history'.val = <<>>
         /\ ~get_stats'.inventory_loaded
         /\ UNCHANGED <<sessions, current_mission, mission_history,
                        last_completed_mission, generic_storage>>
      ]_vars

\* a clear_inventory called while the other collections hold something
C12_Witness ==
    /\ ret.op = "clear_inventory"
    /\ inventory = None
    /\ inventory_history = <<>>
    /\ sessions # EmptyMap
    /\ current_mission # None
    /\ mission_history # <<>>
    /\ last_completed_mission # None
    /\ generic_storage # EmptyMap

\* C13: export(section) and stats() never mutate state: for every section
\* argument, the sessions, inventory, inventory history, mission, mission
\* history, last completed mission and generic storage are the same before and
\* after the call.
C13_ExportAndStatsAreReadOnly ==
    [][ret'.op \in {"to_json", "get_stats"} =>
         UNCHANGED <<sessions, inventory, inventory_history, current_mission,
                     mission_history, last_completed_mission, generic_storage>>
      ]_vars

\* an export under an unknown section name of a store that holds something
C13_Witness ==
    /\ ret.op = "to_json"
    /\ ret.key = "bogus"
    /\ sessions # EmptyMap
    /\ inventory # None
    /\ current_mission # None
    /\ generic_storage # EmptyMap

\* C14: no StateStore operation fails on what is absent: get_session,
\* get_inventory, get_current_mission and get_last_completed_mission return
\* None, get_generic returns the supplied default (None if none was given),
\* the histories and list_sessions return empty collections and a delete of a
\* missing key returns false.
C14_AbsentIsNeverAnError ==
    /\ \A id \in SessionIds \ DOMAIN sessions :
          /\ get_session(id).val = None
          /\ delete_session(id).ret = FALSE
    /\ inventory = None => get_inventory.val = None
    /\ current_mission = None => get_current_mission.val = None
    /\ last_completed_mission = None => get_last_completed_mission.val = None
    /\ \A key \in GenericKeys \ DOMAIN generic_storage :
          /\ \A d \in Defaults : get_generic(key, d).val = d
          /\ delete_generic(key).ret = FALSE
    /\ inventory_history = <<>> => get_inventory_history.val = <<>>
    /\ mission_history = <<>> => get_mission_history.val = <<>>
    /\ sessions = EmptyMap => list_sessions.val = EmptyMap
    /\ (ret.op = "get_generic" /\ ret.key \notin DOMAIN generic_storage) =>
          ret.val = ret.default
    /\ (ret.op = "get_session" /\ ret.key \notin DOMAIN sessions) =>
          ret.val = None

\* get_generic("k", "fallback") on a store without "k"
C14_Witness ==
    /\ ret.op = "get_generic"
    /\ ret.key \notin DOMAIN generic_storage
    /\ ret.default = Str("fallback")
    /\ ret.val = Str("fallback")

\* The inventory tools, one call at a time, over a file system that holds
\* one document of the caller's choice (inv.yml) and the scenario (alt.yml).
InitInv ==
    /\ StoreInit
    /\ inv_storage = [ansible_inventory |-> None, inventory_history |-> <<>>]
    /\ \E doc \in Documents :
          files = [path \in {"inv.yml", "alt.yml", "confdir"} |->
                      CASE path = "inv.yml" -> Text(doc)
                        [] path = "alt.yml" -> Text(ScenarioDeclaration)
                        [] path = "confdir" -> Directory]
    /\ reqs = EmptyMap
    /\ now = 0
    /\ ret = NoRet
    /\ ToolInit

NextInv ==
    \/ \E path \in LoadPaths : LoadInventory(path)
    \/ \E path \in SavePaths : SaveInventory(path)
    \/ GetInventoryStatus
    \/ \E group_name \in {"", "web"} : GetInventoryHosts(group_name)
    \/ GetInventoryGroups
    \/ GetStats
    \/ ClearInventory
    \/ ClearAll

SpecInv == InitInv /\ [][NextInv]_vars

(***************************************************************************)
(* Claims about the inventory tools.                                       *)
(***************************************************************************)
Loaded == inv_storage.ansible_inventory
KeySet(d) == Range(Keys(d))

\* equality of two Python values, a dict compared as a mapping (key order aside)
SameValue(a, b) ==
    IF IsDict(a) /\ IsDict(b) THEN Range(a.e) = Range(b.e) ELSE a = b

\* the comparison of the round-trip property: host names, vars and group
\* memberships of each host, group names, vars and host set of each group
SameInventory(I, J) ==
    /\ J.t = "parsed"
    /\ KeySet(J.hosts) = KeySet(I.hosts)
    /\ \A h \in KeySet(I.hosts) :
          /\ SameValue(Get(J.hosts, h).vars, Get(I.hosts, h).vars)
          /\ Range(Get(J.hosts, h).groups) = Range(Get(I.hosts, h).groups)
    /\ KeySet(J.groups) = KeySet(I.groups)
    /\ \A g \in KeySet(I.groups) :
          /\ SameValue(Get(J.groups, g).vars, Get(I.groups, g).vars)
          /\ Range(Get(J.groups, g).hosts) = Range(Get(I.groups, g).hosts)
    /\ J.total_hosts = I.total_hosts
    /\ J.total_groups = I.total_groups

\* C2: round trip: for every inventory I produced by load, load(save(I)) has
\* the same hosts, host vars, host group memberships, groups, group vars and
\* group hosts as I.
C2_RoundTrip ==
    Truthy(Loaded) =>
        SameInventory(Loaded,
                      parse_inventory(save_declaration(Loaded), "out.yml", now))

\* C3: bidirectional consistency: every group named in a host's groups is a
\* group of the inventory and lists that host; every host a group lists is a
\* host of the inventory.
C3_BidirectionalConsistency ==
    Truthy(Loaded) =>
        /\ \A h \in KeySet(Loaded.hosts) :
              \A g \in Range(Get(Loaded.hosts, h).groups) :
                 /\ Has(Loaded.groups, g)
                 /\ h \in Range(Get(Loaded.groups, g).hosts)
        /\ \A g \in KeySet(Loaded.groups) :
              \A h \in Range(Get(Loaded.groups, g).hosts) : Has(Loaded.hosts, h)

\* the reasons the claim lists for a load to fail: no such file, not a file,
\* empty or null content, text that is not YAML, a document that is no mapping
FailsBeforeParsing(path) ==
    \/ FileAt(path).kind # "text"
    \/ FileAt(path).doc = Garbage
    \/ ~Truthy(FileAt(path).doc)
    \/ ~IsDict(FileAt(path).doc)

\* C5: load fails closed: a load that fails returns an error payload and
\* leaves the loaded inventory and the inventory history as they were, so what
\* get_inventory_status, get_inventory_hosts and get_inventory_groups show is
\* unchanged; a load that succeeds replaces both; a load of a missing file, a
\* directory, an empty or unparsable document or a non-mapping fails.
C5_LoadFailsClosed ==
    [][ret'.op = "load_inventory" =>
         /\ FailsBeforeParsing(ret'.key) => ret'.val.status = "error"
         /\ ret'.val.status = "error" =>
               /\ inv_storage' = inv_storage
               /\ get_inventory_status' = get_inventory_status
               /\ get_inventory_groups' = get_inventory_groups
               /\ \A g \in {"", "web", "all"} :
                     get_inventory_hosts(g)' = get_inventory_hosts(g)
         /\ ret'.val.status # "error" =>
               /\ ret'.val.status = "success"
               /\ inv_storage'.ansible_inventory.source_file = ret'.key
               /\ inv_storage'.inventory_history = <<ret'.key>>
      ]_vars

\* a load of a mapping that fails on its structure while another inventory
\* is loaded
C5_Witness ==
    /\ ret.op = "load_inventory"
    /\ ret.val.status = "error"
    /\ ~FailsBeforeParsing(ret.key)
    /\ Truthy(Loaded)
    /\ Loaded.source_file # ret.key

\* what was loaded is the document of spec.md section 8
ScenarioLoaded ==
    /\ ret.op = "load_inventory"
    /\ ret.key = "alt.yml"
    /\ ret.val.status = "success"

C7_TotalsMatch ==
    Truthy(Loaded) =>
        /\ Loaded.total_hosts = Cardinality(KeySet(Loaded.hosts))
        /\ Loaded.total_hosts = Len(Loaded.hosts)
        /\ Loaded.total_groups = Cardinality(KeySet(Loaded.groups))
        /\ Loaded.total_groups = Len(Loaded.groups)
        /\ get_inventory_status.total_hosts = Len(Loaded.hosts)
        /\ get_inventory_status.total_groups = Len(Loaded.groups)
        /\ (ret.op = "load_inventory" /\ ret.val.status = "success") =>
              /\ ret.val.total_hosts = Len(Loaded.hosts)
              /\ ret.val.total_groups = Len(Loaded.groups)

\* a saved inventory loaded again, with a host that is in two groups
C7_Witness ==
    /\ ret.op = "load_inventory"
    /\ ret.key = "out.yml"
    /\ ret.val.status = "success"
    /\ Loaded.total_hosts = 2
    /\ \E h \in KeySet(Loaded.hosts) :
          Cardinality(Range(Get(Loaded.hosts, h).groups)) = 2

\* C8: the loaded inventory is the StateManager's inventory: what
\* get_inventory_status reports as inventory_loaded is what stats() reports,
\* a successful load makes get_inventory() return the loaded inventory, and
\* after clear_all / clear_inventory no inventory is reported.
C8_InventoryLivesInStateStore ==
    /\ get_inventory_status.inventory_loaded = get_stats.inventory_loaded
    /\ (ret.op = "load_inventory" /\ ret.val.status = "success") =>
          get_inventory.val # None
    /\ ret.op \in {"clear_all", "clear_inventory"} =>
          ~get_inventory_status.inventory_loaded

(***************************************************************************)
(* The session tools under concurrent requests.                            *)
(***************************************************************************)
NextConc ==
    \/ \E r \in RequestIds : \E session_id \in SessionIds :
          BeginStartSessionTracker(r, session_id)
    \/ \E r \in RequestIds : \E session_id \in SessionIds :
          \E key \in UpdateKeys : \E value \in UpdateValues :
             BeginUpdateSessionData(r, session_id, key, value)
    \/ \E r \in RequestIds : StartSessionTracker(r)
    \/ \E r \in RequestIds : UpdateSessionData(r)
    \/ \E r \in RequestIds : UpdateSessionDataAutoCreate(r)
    \/ \E r \in RequestIds : ReturnSessionPayload(r)
    \/ Tick

SpecConc == Init /\ [][NextConc]_vars

\* the requests made on a session
RequestsOn(session_id) ==
    {r \in DOMAIN reqs : reqs[r].session_id = session_id}

\* C4: session updates are atomic under concurrency: when the only requests
\* made on a session id are update_session_data requests, two or more, and
\* all of them have returned, no update is lost: the session's request_count
\* and its number of activities are the number of requests, and every key
\* written is in session_data; this includes the session that did not exist
\* when the requests read it.
C4_NoUpdateLost ==
    \A session_id \in SessionIds :
       LET U == RequestsOn(session_id)
       IN ( /\ Cardinality(U) >= 2
            /\ \A r \in U : /\ reqs[r].tool = "update_session_data"
                            /\ reqs[r].pc = "done" )
          => /\ session_id \in DOMAIN sessions
             /\ sessions[session_id].request_count = Cardinality(U)
             /\ Len(sessions[session_id].activities) = Cardinality(U)
             /\ \A r \in U :
                   /\ Has(sessions[session_id].session_data, reqs[r].key)
                   /\ \E i \in 1..Len(sessions[session_id].activities) :
                         sessions[session_id].activities[i].request_id = r

(***************************************************************************)
(* The mission tools, one call at a time.                                  *)
(***************************************************************************)
NextMission ==
    \/ \E mission_name \in MissionNames : \E destination \in Destinations :
          StartFtlMission(mission_name, destination)
    \/ \E status \in StatusArgs : \E fuel_consumed \in FuelConsumedArgs :
          \E distance \in DistanceArgs : \E alert \in AlertArgs :
             UpdateFtlMission(status, fuel_consumed, distance, alert)
    \/ GetFtlMissionStatus
    \/ CompleteFtlMission
    \/ \E h \in HistoryVals : SetMissionHistory(h)

SpecMission == Init /\ [][NextMission]_vars

(***************************************************************************)
(* Claims about the mission tools.                                         *)
(***************************************************************************)
\* C15: start(name, destination) always succeeds, also over an active
\* mission: afterwards the current mission has the given name and
\* destination, status "planning", fuel_level 100, crew_count 5,
\* distance_traveled 0 and no alerts, whatever the mission before it had.
C15_StartOverwrites ==
    [][ret'.op = "start_ftl_mission" =>
         /\ ret'.val # NoActiveMission
         /\ get_current_mission'.val = ret'.val
         /\ current_mission'.name = ret'.key
         /\ current_mission'.destination \in Destinations
         /\ current_mission'.status = "planning"
         /\ current_mission'.fuel_level = 100
         /\ current_mission'.crew_count = 5
         /\ current_mission'.distance_traveled = 0
         /\ current_mission'.alerts = <<>>
      ]_vars

\* a second mission started after the first one has used up its fuel
C15_Witness ==
    /\ ret.op = "start_ftl_mission"
    /\ ret.key = "Survey"
    /\ current_mission = start_ftl_mission("Survey", "Kepler-442b System")
    /\ last_completed_mission # None
    /\ last_completed_mission.mission_name = "Kepler-442b Expedition"
    /\ last_completed_mission.final_fuel_level = 0

\* C16: update() and complete() called while no mission is active return the
\* no-active-mission error and leave the whole store unchanged; after a
\* complete() that succeeded, an update() or complete() that follows at once
\* fails this way.
C16_NoActiveMissionIsAnError ==
    [][ret'.op \in {"update_ftl_mission", "complete_ftl_mission"} =>
         /\ current_mission = None =>
               /\ ret'.val = NoActiveMission
               /\ UNCHANGED <<sessions, inventory, inventory_history,
                              current_mission, mission_history,
                              last_completed_mission, generic_storage>>
         /\ current_mission # None => ret'.val # NoActiveMission
         /\ (ret.op = "complete_ftl_mission" /\ ret.val # NoActiveMission) =>
               ret'.val = NoActiveMission
      ]_vars

\* an update refused after a completed mission, with the summary and the
\* history still in place
C16_Witness ==
    /\ ret.op = "update_ftl_mission"
    /\ ret.val = NoActiveMission
    /\ current_mission = None
    /\ last_completed_mission # None
    /\ mission_history # <<>>

\* C17: with an active mission fuel_level is within 0 .. 100, for every
\* sequence of start and update calls and every fuel_consumed.
C17_FuelWithinDomain ==
    current_mission # None =>
        /\ current_mission.fuel_level >= 0
        /\ current_mission.fuel_level <= 100

\* C18: for one active mission distance_traveled never decreases: every
\* update leaves it at or above its value before, for every distance.
C18_DistanceNeverDecreases ==
    [][(ret'.op = "update_ftl_mission" /\ ret'.val # NoActiveMission) =>
         current_mission'.distance_traveled >= current_mission.distance_traveled
      ]_vars

\* the alerts an update appended
Appended(before, after) == SubSeq(after, Len(before) + 1, Len(after))
LowFuelCount(alerts) ==
    Cardinality({i \in 1..Len(alerts) : alerts[i] = LowFuelAlert})

C20_CompleteSummarizes ==
    [][(ret'.op = "complete_ftl_mission" /\ current_mission # None) =>
         /\ ret'.val.mission_name = current_mission.name
         /\ ret'.val.destination = current_mission.destination
         /\ ret'.val.total_distance = current_mission.distance_traveled
         /\ ret'.val.final_fuel_level = current_mission.fuel_level
         /\ ret'.val.total_alerts = Len(current_mission.alerts)
         /\ get_last_completed_mission'.val = ret'.val
         /\ get_current_mission'.val = None
         /\ UNCHANGED <<sessions, inventory, inventory_history,
                        mission_history, generic_storage>>
      ]_vars

\* a mission with alerts completed while a history and an earlier summary
\* were stored
C20_Witness ==
    /\ ret.op = "complete_ftl_mission"
    /\ ret.val # NoActiveMission
    /\ ret.val.total_alerts = 2
    /\ ret.val.final_fuel_level = 15
    /\ ret.val.total_distance = 5
    /\ current_mission = None
    /\ last_completed_mission = ret.val
    /\ mission_history # <<>>

(***************************************************************************)
(* The session tools, one request at a time on one MCP session.            *)
(***************************************************************************)
\* the activity log of the session has room for one more entry
\* the values a caller passes to update_session_data in SpecSession
SessionValues == {"v", "w"}

\* the activity log of the session has room for one more entry
Room(session_id) ==
    session_id \in DOMAIN sessions =>
        Len(sessions[session_id].activities) < MaxActivities

NextSession ==
    \/ BeginStartSessionTracker("r0", "s1")
    \/ \E key \in UpdateKeys : \E value \in SessionValues :
          Room("s1") /\ BeginUpdateSessionData("r0", "s1", key, value)
    \/ Room("s1") /\ BeginGetSessionInfo("r0", "s1")
    \/ Room("s1") /\ BeginClearSessionData("r0", "s1")
    \/ StartSessionTracker("r0")
    \/ UpdateSessionData("r0")
    \/ UpdateSessionDataAutoCreate("r0")
    \/ GetSessionInfo("r0")
    \/ ClearSessionData("r0")
    \/ ReturnSessionPayload("r0")
    \/ EndRequest("r0")

SpecSession == Init /\ [][NextSession]_vars

(***************************************************************************)
(* Claims about the session tools.                                         *)
(***************************************************************************)
\* request r's handler runs in this step from reading the session to its
\* last await
Handles(r, tool) ==
    /\ r \in DOMAIN reqs
    /\ r \in DOMAIN reqs'
    /\ reqs[r].tool = tool
    /\ reqs[r].pc \in {"info", "warning"}
    /\ reqs'[r].pc = "debug"

\* request r returns in this step
Returns(r, tool) ==
    /\ r \in DOMAIN reqs
    /\ r \in DOMAIN reqs'
    /\ reqs[r].tool = tool
    /\ reqs[r].pc = "debug"
    /\ reqs'[r].pc = "done"

TrackedTools == {"update_session_data", "get_session_info", "clear_session_data"}
LoggedAction(tool) ==
    CASE tool = "update_session_data" -> "data_update"
      [] tool = "get_session_info" -> "info_request"
      [] tool = "clear_session_data" -> "data_cleared"

\* the session is there before and after the step
Kept(session_id) == session_id \in DOMAIN sessions /\ session_id \in DOMAIN sessions'

\* C21: start followed by k tracked operations (set_data, info, clear_data)
\* and no other start gives request_count = k + 1 and k + 1 activities in
\* call order, the first one session_started: start stores request_count 1
\* and the one activity session_started, every tracked operation appends its
\* own activity to the end and counts 1, so request_count is the length of
\* the log in every state.
C21_CountIsLogLength ==
    /\ [](\A id \in DOMAIN sessions :
            /\ sessions[id].request_count = Len(sessions[id].activities)
            /\ \A i \in 2..Len(sessions[id].activities) :
                  sessions[id].activities[i].action # "session_started")
    /\ [][\A r \in RequestIds :
            /\ Handles(r, "start_session_tracker") =>
                  /\ sessions'[reqs[r].session_id].request_count = 1
                  /\ Len(sessions'[reqs[r].session_id].activities) = 1
                  /\ sessions'[reqs[r].session_id].activities[1].action
                        = "session_started"
            /\ \A tool \in TrackedTools :
                  (Handles(r, tool) /\ Kept(reqs[r].session_id)) =>
                     LET before == sessions[reqs[r].session_id].activities
                         after == sessions'[reqs[r].session_id].activities
                     IN /\ Len(after) = Len(before) + 1
                        /\ SubSeq(after, 1, Len(before)) = before
                        /\ after[Len(after)].action = LoggedAction(tool)
          ]_vars

\* start and then three set_data calls: request_count 4 and 4 activities
C21_Witness ==
    /\ "s1" \in DOMAIN sessions
    /\ sessions["s1"].request_count = 4
    /\ Len(sessions["s1"].activities) = 4
    /\ sessions["s1"].activities[1].action = "session_started"
    /\ \A i \in 2..4 : sessions["s1"].activities[i].action = "data_update"

\* C22 as stated: over every sequence of start, set_data, info and clear_data
\* the stored request_count of a session id never goes down, and every
\* tracked operation raises it by exactly 1.
C22_CountNeverDecreases ==
    [][\A id \in SessionIds :
          /\ Kept(id) => sessions'[id].request_count >= sessions[id].request_count
          /\ \A r \in RequestIds : \A tool \in TrackedTools :
                (Handles(r, tool) /\ reqs[r].session_id = id /\ Kept(id)) =>
                   sessions'[id].request_count = sessions[id].request_count + 1
      ]_vars

\* C22 as the code has it: every tracked operation (set_data, info,
\* clear_data) raises the stored request_count by exactly 1, so it never goes
\* down over tracked operations; start sets it to 1, whatever it was.
C22_CountGrowsUntilStart ==
    [][\A id \in SessionIds :
          /\ \A r \in RequestIds : \A tool \in TrackedTools :
                (Handles(r, tool) /\ reqs[r].session_id = id /\ Kept(id)) =>
                   sessions'[id].request_count = sessions[id].request_count + 1
          /\ \A r \in RequestIds :
                (Handles(r, "start_session_tracker") /\ reqs[r].session_id = id)
                   => sessions'[id].request_count = 1
          /\ (Kept(id) /\ sessions'[id].request_count < sessions[id].request_count)
                => \E r \in RequestIds : Handles(r, "start_session_tracker")
      ]_vars

\* a session counted up to 4 by info and clear_data calls
C22_Witness ==
    /\ "s1" \in DOMAIN sessions
    /\ sessions["s1"].request_count = 4
    /\ \E i \in 1..4 : sessions["s1"].activities[i].action = "info_request"
    /\ \E i \in 1..4 : sessions["s1"].activities[i].action = "data_cleared"
    /\ "r0" \in DOMAIN reqs
    /\ reqs["r0"].tool = "start_session_tracker"
    /\ reqs["r0"].pc = "info"

Min(a, b) == IF a < b THEN a ELSE b

\* C23 as stated: info on a session that holds n activities when it is called
\* returns the last min(5, n) of them and n as the total.
C23_InfoReportsLogBeforeCall ==
    [][\A r \in RequestIds :
          (Handles(r, "get_session_info") /\ Kept(reqs[r].session_id)) =>
             LET n == Len(sessions[reqs[r].session_id].activities)
             IN /\ session_info(r)'.total_activities = n
                /\ Len(session_info(r)'.recent_activities) = Min(5, n)
      ]_vars

\* C23 as the code has it: info logs its own info_request activity first, so
\* with n the number of activities stored once the call is logged (one more
\* than before the call) it returns the last min(5, n) stored activities in
\* their order and n as the total; never more than 5; the stored log is not
\* truncated.
C23_InfoReportsLastFive ==
    [][\A r \in RequestIds :
          /\ (Handles(r, "get_session_info") /\ Kept(reqs[r].session_id)) =>
                sessions'[reqs[r].session_id].activities =
                    Append(sessions[reqs[r].session_id].activities,
                           SessionActivity(now, "info_request", r, None))
          /\ (Returns(r, "get_session_info") /\ ret'.val.session_found) =>
                LET log == sessions[reqs[r].session_id].activities
                    n == Len(log)
                    recent == ret'.val.recent_activities
                IN /\ ret'.val.total_activities = n
                   /\ Len(recent) = Min(5, n)
                   /\ Len(recent) <= 5
                   /\ recent = SubSeq(log, n - Min(5, n) + 1, n)
                   /\ UNCHANGED sessions
      ]_vars

\* info on a log of six activities: five are returned, six are counted and
\* six are still stored
C23_Witness ==
    /\ ret.op = "get_session_info"
    /\ ret.val.session_found
    /\ ret.val.total_activities = 6
    /\ Len(ret.val.recent_activities) = 5
    /\ Len(sessions["s1"].activities) = 6
    /\ ret.val.recent_activities[1] = sessions["s1"].activities[2]

\* C24: set_data(key, value) returns as old value what the session held under
\* key just before the call (None if the key or the session was not there);
\* afterwards session_data[key] = value and every other key of the session's
\* data is as before.
C24_SetDataReturnsOldValue ==
    [][\A r \in RequestIds :
          /\ Handles(r, "update_session_data") =>
                LET id == reqs[r].session_id
                    key == reqs[r].key
                    before == IF id \in DOMAIN sessions
                              THEN sessions[id].session_data ELSE <<>>
                    after == sessions'[id].session_data
                IN /\ reqs'[r].old_value =
                         (IF Has(before, key) THEN Get(before, key) ELSE None)
                   /\ Has(after, key)
                   /\ Get(after, key) = Str(reqs[r].value)
                   /\ \A k \in UpdateKeys \ {key} :
                         /\ Has(after, k) = Has(before, k)
                         /\ Has(before, k) => Get(after, k) = Get(before, k)
          /\ Returns(r, "update_session_data") =>
                /\ ret'.val.old_value = reqs[r].old_value
                /\ ret'.val.new_value = reqs[r].value
                /\ ret'.val.key = reqs[r].key
                /\ UNCHANGED sessions
      ]_vars

\* a set_data that replaced "v" by "w" under one key while the other key
\* stayed
C24_Witness ==
    /\ ret.op = "update_session_data"
    /\ ret.val.old_value = Str("v")
    /\ ret.val.new_value = "w"
    /\ Len(sessions["s1"].session_data) = 2
    /\ Get(sessions["s1"].session_data, ret.val.key) = Str("w")

\* C25: clear_data on an existing session empties session_data, keeps
\* session_name, start_time, client_id and the logged activities as they are
\* and in order, counts as one tracked operation (request_count + 1, one
\* data_cleared activity appended) and reports the keys and the number of
\* items cleared.
C25_ClearDataKeepsTheSession ==
    [][\A r \in RequestIds :
          /\ (Handles(r, "clear_session_data") /\ Kept(reqs[r].session_id)) =>
                LET before == sessions[reqs[r].session_id]
                    after == sessions'[reqs[r].session_id]
                IN /\ after.session_data = <<>>
                   /\ after.session_name = before.session_name
                   /\ after.start_time = before.start_time
                   /\ after.client_id = before.client_id
                   /\ after.request_count = before.request_count + 1
                   /\ Len(after.activities) = Len(before.activities) + 1
                   /\ SubSeq(after.activities, 1, Len(before.activities))
                         = before.activities
                   /\ after.activities[Len(after.activities)].action
                         = "data_cleared"
                   /\ reqs'[r].data_keys_cleared = Keys(before.session_data)
          /\ (Returns(r, "clear_session_data") /\ ret'.val.status = "cleared") =>
                /\ ret'.val.data_keys_cleared = reqs[r].data_keys_cleared
                /\ ret'.val.items_cleared = Len(reqs[r].data_keys_cleared)
                /\ ret'.val.request_count
                      = sessions[reqs[r].session_id].request_count
                /\ UNCHANGED sessions
      ]_vars

\* a clear_data that cleared two keys of a started session
C25_Witness ==
    /\ ret.op = "clear_session_data"
    /\ ret.val.status = "cleared"
    /\ ret.val.items_cleared = 2
    /\ ret.val.data_keys_cleared = <<"a", "b">>
    /\ sessions["s1"].session_data = <<>>
    /\ sessions["s1"].session_name = "Test"
    /\ Len(sessions["s1"].activities) = 4

(***************************************************************************)
(* The playbook tools, with another user of the StateManager that stores   *)
(* and deletes the task list.                                              *)
(***************************************************************************)
NextPlaybook ==
    \/ \E module_name \in ModuleNames : \E hosts \in HostLists :
          \E completes \in BOOLEAN : \E changed \in BOOLEAN :
             /\ Len(tasks) < MaxTasks
             /\ AnsibleModule(module_name, hosts, completes, changed)
    \/ GetPlaybookTasks
    \/ \E playbook_name \in PlaybookNames : \E include_failed \in BOOLEAN :
          GeneratePlaybook(playbook_name, include_failed)
    \/ ClearPlaybookTasks
    \/ \E value \in StoredTaskLists : SetGeneric("playbook_tasks", value)
    \/ DeleteGeneric("playbook_tasks")

SpecPlaybook == Init /\ [][NextPlaybook]_vars

(***************************************************************************)
(* The SecretsManager, its sources and the secrets tools.  The manager is  *)
(* constructed in any of the environments of the model.                    *)
(***************************************************************************)
InitSecrets ==
    /\ StoreInit
    /\ inv_storage = [ansible_inventory |-> None, inventory_history |-> <<>>]
    /\ files = EmptyMap
    /\ reqs = EmptyMap
    /\ now = 0
    /\ ret = NoRet
    /\ tasks = <<>>
    /\ \E key \in {"k1"} :
       \E env \in {<<>>, <<E("HOME", "/root"), E("FTL_SECRET_API_KEY", "env")>>} :
          /\ environ = env
          /\ secrets_file = None
          /\ secrets_manager = SecretsManager(key, env, None)
          /\ LET other == [i \in 1..Len(env) |->
                             IF starts_with_secret_prefix(env[i].k)
                             THEN E(env[i].k, Other(env[i].v)) ELSE env[i]]
             IN twin = [secrets_manager |-> SecretsManager(key, other, None),
                        environ |-> other, secrets_file |-> None, ret |-> NoRet]

NextSecrets ==
    \/ \E name \in SetNames : \E value \in RuntimeValues :
          \E description \in Descriptions : \E tags \in TagArgs :
             SetSecret(name, value, description, tags)
    \/ \E name \in LookupNames : GetSecret(name)
    \/ \E name \in LookupNames : HasSecret(name)
    \/ \E name \in LookupNames : GetSecretMetadata(name)
    \/ SaveToEncryptedFile
    \/ GetSecretsStatus
    \/ \E name \in LookupNames : CheckSecretExists(name)
    \/ ReloadSecrets
    \/ \E setting \in EnvSettings : Putenv(setting[1], setting[2])
    \/ \E env_var \in EnvVars : Unsetenv(env_var)
    \/ \E key \in EncryptionKeys : \E shape \in FileShapes :
          \E value \in FileValues : WriteSecretsFile(key, shape, value)
    \/ RemoveSecretsFile

SpecSecrets == InitSecrets /\ [][NextSecrets]_vars

(***************************************************************************)
(* Claims about the playbook tools.                                        *)
(***************************************************************************)
\* the task logger and the stored list agree on the recorded tasks
InSync == get_tasks = tasks

\* C26: recorded playbook tasks persist across tool calls.
\* clear_playbook_tasks reports the number of recorded tasks as tasks_cleared
\* and leaves none; from then on every module execution that completes adds
\* its task at the end of the recorded tasks, and get_playbook_tasks reports
\* the recorded tasks as they are, total_tasks their number and
\* successful_tasks + failed_tasks = total_tasks.  So after a clear and n
\* completed executions get reports n tasks in execution order, and the next
\* clear reports tasks_cleared = n and leaves total_tasks 0.
C26_TasksPersist ==
    [][/\ ClearPlaybookTasks =>
             /\ ret'.val.tasks_cleared = Len(get_tasks)
             /\ get_tasks' = <<>>
             /\ playbook_tasks_summary(get_tasks').summary.total_tasks = 0
             /\ InSync'
       /\ \A module_name \in ModuleNames : \A changed \in BOOLEAN :
             (InSync /\ AnsibleModule(module_name, <<"localhost">>, TRUE, changed))
                => /\ Len(get_tasks') = Len(get_tasks) + 1
                   /\ SubSeq(get_tasks', 1, Len(get_tasks)) = get_tasks
                   /\ get_tasks'[Len(get_tasks')].module = module_name
                   /\ InSync'
       /\ GetPlaybookTasks =>
             /\ ret'.val.tasks = get_tasks
             /\ ret'.val.summary.total_tasks = Len(get_tasks)
             /\ ret'.val.summary.successful_tasks + ret'.val.summary.failed_tasks
                   = ret'.val.summary.total_tasks
             /\ get_tasks' = get_tasks
             /\ InSync'
      ]_vars

\* a clear that reported two tasks, the two executions recorded after the
\* clear before it
C26_Witness ==
    /\ ret.op = "clear_playbook_tasks"
    /\ ret.val.tasks_cleared = 2
    /\ get_tasks = <<>>
    /\ "ansible_execution_0" \in DOMAIN generic_storage
    /\ tasks = <<>>

\* C27: generate_playbook returns an error when no task is recorded or, with
\* include_failed = false, when no recorded task succeeded; otherwise the
\* task list of the playbook holds, in recorded order, exactly the recorded
\* tasks that succeeded (all of them with include_failed = true),
\* metadata.task_count is the length of that list, and the recorded tasks are
\* left as they were.
C27_PlaybookOfSucceededTasks ==
    [][\A playbook_name \in PlaybookNames : \A include_failed \in BOOLEAN :
          GeneratePlaybook(playbook_name, include_failed) =>
             LET recorded == get_tasks
                 wanted == {i \in 1..Len(recorded) :
                               include_failed \/ recorded[i].success}
                 listed == ret'.val.playbook.tasks
             IN /\ ("error" \in DOMAIN ret'.val) = (wanted = {})
                /\ wanted # {} =>
                      /\ Len(listed) = Cardinality(wanted)
                      /\ \A i \in 1..Len(listed) :
                            \E j \in wanted :
                               /\ listed[i].name = recorded[j].name
                               /\ listed[i].module = recorded[j].module
                               /\ Cardinality({k \in wanted : k < j}) = i - 1
                      /\ ret'.val.metadata.task_count = Len(listed)
                /\ get_tasks' = recorded
                /\ generic_storage' = generic_storage
      ]_vars

\* a playbook of the two tasks that succeeded, out of three recorded
C27_Witness ==
    /\ ret.op = "generate_playbook"
    /\ "error" \notin DOMAIN ret.val
    /\ ret.val.metadata.task_count = 2
    /\ Len(get_tasks) = 3
    /\ ~get_tasks[2].success
    /\ ret.val.playbook.tasks[2].name = get_tasks[3].name

(***************************************************************************)
(* Claims about the secrets manager and the secrets tools.                 *)
(***************************************************************************)
\* C28: secret lookup is case-insensitive: every secret the manager holds,
\* whichever way it was stored, is found by get_secret, has_secret and
\* get_secret_metadata under every letter-casing of its name.
C28_LookupIgnoresCase ==
    \A i \in 1..Len(secrets_manager._secrets) :
       \A name \in LookupNames :
          lower(name) = lower(secrets_manager._secrets[i].k) =>
             /\ has_secret(secrets_manager, name)
             /\ get_secret(secrets_manager, name) # None
             /\ get_secret_metadata(secrets_manager, name) # None

\* the same for the secrets that set_secret and the environment stored
LookupOfLoweredNames ==
    \A i \in 1..Len(secrets_manager._secrets) :
       \A name \in LookupNames :
          lower(name) = secrets_manager._secrets[i].k =>
             /\ has_secret(secrets_manager, name)
             /\ get_secret(secrets_manager, name)
                   = Str(secrets_manager._secrets[i].v)
             /\ get_secret_metadata(secrets_manager, name) # None

\* the names the sources provide: the lowered names of the FTL_SECRET_
\* variables, and the names of a file that the manager's key decrypts
EnvNames(env) ==
    {lower(without_secret_prefix(env[i].k)) :
        i \in {j \in 1..Len(env) : starts_with_secret_prefix(env[j].k)}}
FileNames(m, file) ==
    IF file = None
    THEN {}
    ELSE IF file.key # m._encryption_key
         THEN {}
         ELSE {file.data[i].k : i \in 1..Len(file.data)}

\* C29: reload_secrets discards every secret that is not in an external
\* source: afterwards every secret comes from the environment or the file, a
\* secret added only by set_secret is gone, every environment secret is
\* present with the tag environment, and the result reports the count
\* before as initial_count and the count after as final_count.
C29_ReloadKeepsExternalSecrets ==
    [][(ret'.op = "reload_secrets" /\ ReloadSecrets) =>
          /\ Range(Keys(secrets_manager'._secrets))
                \subseteq EnvNames(environ) \cup FileNames(secrets_manager, secrets_file)
          /\ \A name \in EnvNames(environ) :
                /\ Has(secrets_manager'._secrets, name)
                /\ "environment" \in Range(Get(secrets_manager'._metadata, name).tags)
          /\ ret'.val.reload_summary.initial_secret_count
                = Len(secrets_manager._secrets)
          /\ ret'.val.reload_summary.final_secret_count
                = Len(secrets_manager'._secrets)
      ]_vars

\* the same without the tag of the environment secrets
ReloadDiscardsRuntimeSecrets ==
    [][(ret'.op = "reload_secrets" /\ ReloadSecrets) =>
          /\ Range(Keys(secrets_manager'._secrets))
                \subseteq EnvNames(environ) \cup FileNames(secrets_manager, secrets_file)
          /\ \A name \in EnvNames(environ) : Has(secrets_manager'._secrets, name)
          /\ ret'.val.reload_summary.initial_secret_count
                = Len(secrets_manager._secrets)
          /\ ret'.val.reload_summary.final_secret_count
                = Len(secrets_manager'._secrets)
      ]_vars

ClientTools == {"get_secrets_status", "check_secret_exists", "reload_secrets"}

\* C30: secret values are never exposed through the client-facing tools: a
\* second store that went through the same calls, with the same names and
\* metadata and another value for every secret, returns the same payload from
\* get_secrets_status, check_secret_exists and reload_secrets.
C30_PayloadsHideValues ==
    ret.op \in ClientTools => twin.ret = ret

\* the status of two stores that hold the same two names with different
\* values
C30_Witness ==
    /\ ret.op = "get_secrets_status"
    /\ Len(ret.val.secrets) = 2
    /\ Keys(twin.secrets_manager._secrets) = Keys(secrets_manager._secrets)
    /\ \A i \in 1..Len(secrets_manager._secrets) :
          twin.secrets_manager._secrets[i].v # secrets_manager._secrets[i].v
    /\ twin.ret = ret

(***************************************************************************)
(* Claims about the shape of what load_inventory builds.                   *)
(***************************************************************************)
NoDuplicates(seq) ==
    \A i, j \in 1..Len(seq) : i # j => seq[i] # seq[j]

\* C31: host group membership is deduplicated: in every inventory produced
\* by load no host's groups holds the same group name twice, also when a
\* group's block is processed more than once.
C31_GroupsDeduplicated ==
    Truthy(Loaded) =>
        \A h \in KeySet(Loaded.hosts) :
           NoDuplicates(Get(Loaded.hosts, h).groups)

\* the group blocks of a declaration: the mappings at top level and the
\* mappings given inline under all.children
GroupBlocks(doc) ==
    IF ~IsDict(doc) THEN {}
    ELSE LET top == {e.v : e \in Range(doc.e)}
             inline == UNION {
                 IF IsDict(e.v) /\ Has(e.v.e, "children")
                    /\ IsDict(Get(e.v.e, "children"))
                 THEN {c.v : c \in Range(Get(e.v.e, "children").e)}
                 ELSE {} : e \in {x \in Range(doc.e) : x.k = "all"}}
         IN {b \in top \cup inline : IsDict(b)}

\* the keys of the vars a declaration gives to a host under any of its blocks
DeclaredVarKeys(doc, h) ==
    UNION {LET hosts == Get(b.e, "hosts")
           IN IF IsDict(hosts) /\ Has(hosts.e, h) /\ IsDict(Get(hosts.e, h))
              THEN KeySet(Get(hosts.e, h).e)
              ELSE {} : b \in {x \in GroupBlocks(doc) : Has(x.e, "hosts")}}

\* C32: a load merges the vars of every declaration of a host: the loaded
\* host's vars contain every key given to it under any of its group blocks.
C32_VarsOfEveryBlockMerged ==
    [][(ret'.op = "load_inventory" /\ ret'.val.status = "success") =>
         \A h \in KeySet(Loaded'.hosts) :
            DeclaredVarKeys(FileAt(ret'.key).doc, h)
               \subseteq KeySet(Get(Loaded'.hosts, h).vars.e)
      ]_vars

\* the wrong shapes the claim lists: a top-level value that is no mapping, a
\* block whose hosts or vars is no mapping, or whose children is neither a
\* mapping nor a sequence
WronglyShaped(doc) ==
    \/ ~IsDict(doc)
    \/ \E b \in GroupBlocks(doc) :
          \/ Has(b.e, "hosts") /\ ~IsDict(Get(b.e, "hosts"))
          \/ Has(b.e, "vars") /\ ~IsDict(Get(b.e, "vars"))
          \/ /\ Has(b.e, "children")
             /\ ~IsDict(Get(b.e, "children"))
             /\ ~IsList(Get(b.e, "children"))

\* C33: load rejects every wrongly shaped declaration with an error payload
\* instead of an inventory.
C33_WrongShapesRejected ==
    [][(ret'.op = "load_inventory" /\ FileAt(ret'.key).kind = "text"
        /\ WronglyShaped(FileAt(ret'.key).doc)) =>
         ret'.val.status = "error"
      ]_vars

(***************************************************************************)
(* Claims about the export of one section.                                 *)
(***************************************************************************)
\* the collection each named section stands for
SectionField(section) ==
    CASE section = "sessions" -> "sessions"
      [] section = "inventory" -> "inventory"
      [] section = "mission" -> "current_mission"
      [] section = "generic" -> "generic_storage"

\* C34: export(section) with a named section (sessions, inventory, mission,
\* generic) returns that one collection only, also when the inventory or the
\* mission slot is absent; it never returns the data of other collections.
C34_NamedSectionExportsOneCollection ==
    (ret.op = "to_json"
     /\ ret.key \in {"sessions", "inventory", "mission", "generic"}) =>
        DOMAIN ret.val = {SectionField(ret.key)}

(***************************************************************************)
(* Further claims about the session tools.                                 *)
(***************************************************************************)
\* the handler of r resumes after ctx.warning in this step
AutoCreates(r) ==
    /\ r \in DOMAIN reqs
    /\ r \in DOMAIN reqs'
    /\ reqs[r].pc = "warning"
    /\ reqs'[r].pc = "debug"

\* C35: for every session created and modified only through the session
\* tools, request_count equals the number of activities in every reachable
\* state; on the auto-create path the session starts at 0 with no activities
\* and the update that created it adds one of each.
C35_CountMatchesActivities ==
    /\ [](\A id \in DOMAIN sessions :
            sessions[id].request_count = Len(sessions[id].activities))
    /\ [][\A r \in RequestIds :
            AutoCreates(r) =>
               /\ reqs[r].session_id \notin DOMAIN sessions
               /\ sessions'[reqs[r].session_id].request_count = 1
               /\ Len(sessions'[reqs[r].session_id].activities) = 1
               /\ sessions'[reqs[r].session_id].activities[1].action
                     = "data_update"
          ]_vars

\* an auto-created session that went on through info and clear_data
C35_Witness ==
    /\ "s1" \in DOMAIN sessions
    /\ sessions["s1"].session_name = "Auto-created"
    /\ sessions["s1"].request_count = 3
    /\ sessions["s1"].activities[1].action = "data_update"
    /\ sessions["s1"].activities[2].action = "info_request"
    /\ sessions["s1"].activities[3].action = "data_cleared"

\* C36: get_session_info and clear_session_data for a session id with no
\* stored session leave the store as it is (no session is created, no counter
\* or activity changes) and return a not-found payload; get_session_info on
\* an existing session is a tracked operation: request_count + 1 and one
\* info_request activity appended, which the returned recent activities and
\* total include.
C36_NotFoundLeavesStoreUnchanged ==
    [][\A r \in RequestIds :
          /\ \A tool \in {"get_session_info", "clear_session_data"} :
                /\ (Handles(r, tool) /\ reqs[r].session_id \notin DOMAIN sessions)
                      => /\ UNCHANGED storeVars
                         /\ reqs'[r].session_data = None
                /\ (Returns(r, tool) /\ reqs[r].session_data = None)
                      => /\ UNCHANGED storeVars
                         /\ ret'.val.session_id = reqs[r].session_id
                         /\ IF tool = "get_session_info"
                            THEN /\ ret'.val.session_found = FALSE
                                 /\ ret'.val.active_sessions = DOMAIN sessions
                            ELSE ret'.val.status = "not_found"
          /\ (Handles(r, "get_session_info") /\ Kept(reqs[r].session_id)) =>
                LET before == sessions[reqs[r].session_id]
                    after == sessions'[reqs[r].session_id]
                IN /\ after.request_count = before.request_count + 1
                   /\ after.activities
                         = Append(before.activities,
                                  SessionActivity(now, "info_request", r, None))
                   /\ session_info(r)'.session_found
                   /\ session_info(r)'.request_count = after.request_count
                   /\ session_info(r)'.total_activities
                         = Len(before.activities) + 1
                   /\ LET recent == session_info(r)'.recent_activities
                      IN recent[Len(recent)]
                            = after.activities[Len(after.activities)]
      ]_vars

\* get_session_info has returned not-found and no session is stored
C36_Witness ==
    /\ ret.op = "get_session_info"
    /\ ret.val.session_found = FALSE
    /\ ret.val.active_sessions = {}
    /\ sessions = EmptyMap
    /\ "r0" \in DOMAIN reqs
    /\ reqs["r0"].pc = "done"

(***************************************************************************)
(* Further claims about the playbook tools.                                *)
(***************************************************************************)
\* the list stored under "playbook_tasks", empty when there is no such entry
StoredTasks ==
    IF "playbook_tasks" \in DOMAIN generic_storage
    THEN generic_storage["playbook_tasks"].items
    ELSE <<>>

\* C37: the task logger follows the shared store: after any sequence of
\* log_task, clear_tasks and changes made elsewhere to the generic entry
\* "playbook_tasks" (set_generic, delete_generic), get_tasks returns exactly
\* the list stored under "playbook_tasks", and the empty list when the entry
\* is absent or empty; tasks logged before the entry was removed do not
\* reappear.
C37_LoggerFollowsStore ==
    [][GetPlaybookTasks => ret'.val.tasks = StoredTasks]_vars

\* the execution records of ansible_module in the generic storage
ExecutionRecords(storage) ==
    {key \in DOMAIN storage : key \notin {"playbook_tasks"}}

\* C39: a module execution that fails records nothing: when ansible_module is
\* given no valid host, or the execution raises, the tool returns an error
\* payload, no task is appended to the task log and no execution record is
\* added to the generic storage; an execution that returns a result appends
\* exactly one task.
C39_FailedExecutionRecordsNothing ==
    [][\A module_name \in ModuleNames : \A hosts \in HostLists :
          \A completes \in BOOLEAN : \A changed \in BOOLEAN :
             (ret'.op = "ansible_module"
              /\ AnsibleModule(module_name, hosts, completes, changed)) =>
                IF hosts = <<>> \/ ~completes
                THEN /\ DOMAIN ret'.val = {"error"}
                     /\ tasks' = tasks
                     /\ get_tasks' = get_tasks
                     /\ generic_storage' = generic_storage
                ELSE /\ "error" \notin DOMAIN ret'.val
                     /\ Len(tasks') = Len(tasks) + 1
                     /\ SubSeq(tasks', 1, Len(tasks)) = tasks
                     /\ tasks'[Len(tasks')].module = module_name
                     /\ generic_storage'["playbook_tasks"].items = tasks'
                     /\ ExecutionRecords(generic_storage')
                           = ExecutionRecords(generic_storage)
                               \cup {"ansible_execution_" \o ToString(now)}
      ]_vars

\* an execution that raised after one that was recorded: the log still holds
\* the one task
C39_Witness ==
    /\ ret.op = "ansible_module"
    /\ ret.val = [error |-> "Module execution failed"]
    /\ Len(tasks) = 1
    /\ get_tasks = tasks
    /\ ExecutionRecords(generic_storage) = {"ansible_execution_0"}

(***************************************************************************)
(* The execution inventory, over loads of several declarations and over    *)
(* the ssh credentials set as secrets.                                     *)
(***************************************************************************)
ExecDocuments ==
    {ScenarioDeclaration,
     Dict(<<E("web", Block(Dict(<<E("localhost", UserVars), E("h1", None)>>),
                           Absent, Absent))>>),
     Dict(<<E("all", Block(Dict(<<E("h1", IpVars)>>), PortVars, Absent))>>),
     Str("web")}

InitExec ==
    /\ StoreInit
    /\ inv_storage = [ansible_inventory |-> None, inventory_history |-> <<>>]
    /\ \E doc \in ExecDocuments :
          files = [path \in {"inv.yml", "alt.yml"} |->
                      CASE path = "inv.yml" -> Text(doc)
                        [] path = "alt.yml" -> Text(ScenarioDeclaration)]
    /\ reqs = EmptyMap
    /\ now = 0
    /\ ret = NoRet
    /\ ToolInit

NextExec ==
    \/ \E path \in {"inv.yml", "alt.yml"} : LoadInventory(path)
    \/ \E name \in {"ssh_user", "ssh_key_file"} : \E value \in RuntimeValues :
          \E description \in Descriptions : SetSecret(name, value, description, <<>>)
    \/ \E hosts \in TargetHostLists : CreateInventoryForHosts(hosts)

SpecExec == InitExec /\ [][NextExec]_vars

\* the loaded inventory is used for these hosts
UsesLoaded(hosts) ==
    /\ Loaded # None
    /\ \A h \in Range(hosts) : h \in KeySet(Loaded.hosts)

\* C38: the execution inventory built for a module run contains exactly the
\* requested hosts: the keys of all.hosts are the target hosts; host vars and
\* global vars are those of the loaded inventory if and only if an inventory
\* is loaded and every target host is in it, otherwise the inventory is the
\* basic one, in which localhost gets a local connection and every other host
\* empty vars.
C38_ExecutionInventoryOfTargetHosts ==
    [][\A hosts \in TargetHostLists :
          (ret'.op = "_create_inventory_for_hosts"
           /\ CreateInventoryForHosts(hosts)) =>
             LET built == ret'.val.inventory.all
             IN /\ KeySet(built.hosts) = Range(hosts)
                /\ IF UsesLoaded(hosts)
                   THEN /\ built.vars = Loaded.vars
                        /\ \A h \in Range(hosts) :
                              Get(built.hosts, h) = Get(Loaded.hosts, h).vars
                   ELSE /\ Has(built.vars, "ansible_ssh_common_args")
                        /\ \A h \in Range(hosts) :
                              Get(built.hosts, h) =
                                 IF h = "localhost" THEN LocalConnection
                                 ELSE Dict(<<>>)
      ]_vars

\* with an inventory loaded that holds h1 and not ghost, the inventory built
\* for h1 and ghost is the basic one, with the ssh user of the secrets
C38_Witness ==
    /\ ret.op = "_create_inventory_for_hosts"
    /\ ret.val.target_hosts = <<"h1", "ghost">>
    /\ Loaded # None
    /\ "h1" \in KeySet(Loaded.hosts)
    /\ KeySet(ret.val.inventory.all.hosts) = {"h1", "ghost"}
    /\ Has(ret.val.inventory.all.vars, "ansible_user")

====
